---- MODULE Spec2Model ----
(***************************************************************************)
(* A model of claude-dot-ai-share-scraper: the share-URL utilities         *)
(* (utils.py) and the HTML-to-conversation extraction of                   *)
(* ConversationParser (parser.py).                                         *)
(*                                                                         *)
(* Text is modelled as a sequence of one-character strings (URLs) or of    *)
(* tokens (titles, message content), so that searching, stripping and      *)
(* cleaning are computed and not assumed.                                  *)
(*                                                                         *)
(* The module holds several specifications over one set of variables:      *)
(*   SpecUrl    extract_share_id / is_valid_claude_share_url               *)
(*   SpecTitle  ConversationParser._extract_title                          *)
(*   SpecRender ConversationParser._extract_message_content                *)
(*   Spec       ConversationParser.parse_html on a bounded document tree   *)
(* Each one leaves the variables of the others at their idle values.       *)
(***************************************************************************)
EXTENDS Integers, Sequences, FiniteSets, TLC

VARIABLES
    \* --- SpecUrl ---
    url,          \* the URL given on the command line (sequence of characters)
    urlValid,     \* result of is_valid_claude_share_url(url), or "unset"
    urlShareId,   \* result of extract_share_id(url), or Unset
    upc,          \* "idle" | "start" | "validated" | "done"
    \* --- SpecTitle ---
    cands,        \* per title selector, the text of the element select_one finds, or None
    titleOut,     \* result of _extract_title, or Unset
    tpc,          \* "idle" | "start" | "done"
    \* --- SpecRender ---
    turn,         \* the turn container element handed to _extract_message_content
    rendered,     \* the content it returns, or Unset
    rpc,          \* "idle" | "start" | "done"
    \* --- Spec: parse_html(html_content, url); url and cands are its inputs too ---
    doc,          \* the element tree BeautifulSoup builds from html_content
    pc,           \* "idle" | "start" | "title" | "messages" | "build" | "done" | "raised"
    share_id,     \* ConversationParser.share_id
    title,        \* ConversationParser.title
    messages,     \* ConversationParser.messages
    metadata,     \* ConversationParser.metadata
    fault,        \* the exception the except clause caught, "none" if none
    result,       \* what parse_html returned, or Unset
    \* --- further specifications: one record each, [pc |-> "idle"] when not running ---
    cleanup,      \* CacheManager.cleanup_empty_directories: index, disk and loop state
    fetch,        \* ClaudeShareScraper.fetch_conversation: loop state, what the network did, what came back
    fetchAdv,     \* ClaudeShareScraper.fetch_conversation_advanced: methods called, their outcomes, the result
    markdown,     \* ConversationParser.generate_markdown(result): the parts it joins with line breaks
    conc,         \* two parse_html calls in two threads: the parser instances, each call's input, position and result
    lang,         \* _detect_code_language and _apply_pygments_highlighting on one code element: classes, content, language, fence tag
    fenced,       \* _extract_structured_content on an answer holding code blocks, twice on one parser: the elements, the fence tag, self.messages, both results
    verdict,      \* _determine_message_role on one element: what the element holds, the index, the role returned
    climb,        \* lines 146-159 of _find_message_turns for one user-message element: the classes of its ancestors, the container found
    store,        \* CacheManager: the index and the conversation directories, over a sequence of calls
    scrape,       \* the scrape command: its arguments, what fetch and parse give, the cache, the position in the command
    batch         \* the batch command: the valid URLs, what each one gives, the loop index and the two counters

urlVars == <<url, urlValid, urlShareId, upc>>
titleVars == <<cands, titleOut, tpc>>
renderVars == <<turn, rendered, rpc>>

parseVars == <<doc, pc, share_id, title, messages, metadata, fault, result>>

vars == <<url, urlValid, urlShareId, upc, cands, titleOut, tpc,
          turn, rendered, rpc,
          doc, pc, share_id, title, messages, metadata, fault, result,
          cleanup,
          cleanup, fetch,
          cleanup, fetch,
          cleanup, fetch, fetchAdv,
          cleanup, fetch, fetchAdv, markdown,
          cleanup, fetch, fetchAdv, markdown, conc,
          cleanup, fetch, fetchAdv, markdown, conc, lang,
          cleanup, fetch, fetchAdv, markdown, conc, lang, fenced,
          cleanup, fetch, fetchAdv, markdown, conc, lang, fenced, verdict,
          cleanup, fetch, fetchAdv, markdown, conc, lang, fenced, verdict, climb,
          cleanup, fetch, fetchAdv, markdown, conc, lang, fenced, verdict, climb, store,
          cleanup, fetch, fetchAdv, markdown, conc, lang, fenced, verdict, climb, store, scrape,
          cleanup, fetch, fetchAdv, markdown, conc, lang, fenced, verdict, climb, store, scrape, batch>>

(***************************************************************************)
(* Bounds                                                                  *)
(***************************************************************************)
\* longest path segment put after the URL's path prefix
MaxSeg == 3
\* longest text (in tokens) of a title candidate element
MaxTitleLen == 4
\* most div elements below the response wrapper of a rendered turn
MaxDivs == 3
\* most elements of a parsed document
MaxNodes == 3
\* most share ids the cache index holds
MaxEntries == 3
\* largest max_retries a scraper is built with
MaxRetries == 2

(***************************************************************************)
(* Generic helpers on sequences                                            *)
(***************************************************************************)
\* Python's None, for a value that is otherwise a sequence
None == <<"<None>">>
\* a field that no operation has assigned yet
Unset == <<"<unset>">>

SetMin(S) == CHOOSE x \in S : \A y \in S : x <= y
SetMax(S) == CHOOSE x \in S : \A y \in S : x >= y

\* all sequences over S of length 0..n
SeqsUpTo(S, n) == UNION {[1..k -> S] : k \in 0..n}

\* lit occurs in s starting at position i
IsPrefixAt(lit, s, i) ==
    /\ i >= 1
    /\ i + Len(lit) - 1 <= Len(s)
    /\ \A k \in 1..Len(lit) : s[i + k - 1] = lit[k]

\* str.startswith
StartsWith(s, lit) == IsPrefixAt(lit, s, 1)

\* str.find(c): first position of character c in s, 0 when absent
FindChar(s, c) ==
    LET hits == {i \in 1..Len(s) : s[i] = c}
    IN IF hits = {} THEN 0 ELSE SetMin(hits)

\* first position of any character of cs in s at or after from, Len(s)+1 when absent
FindAnyFrom(s, cs, from) ==
    LET hits == {i \in from..Len(s) : s[i] \in cs}
    IN IF hits = {} THEN Len(s) + 1 ELSE SetMin(hits)

(***************************************************************************)
(* utils.py: share URLs                                                    *)
(***************************************************************************)
\* the literal part of the pattern r'claude\.ai/share/([a-f0-9-]+)'
SharePattern ==
    <<"c","l","a","u","d","e",".","a","i","/","s","h","a","r","e","/">>

\* the character class [a-f0-9-]
HexChars ==
    {"a","b","c","d","e","f","0","1","2","3","4","5","6","7","8","9","-"}

Letters ==
    {"a","b","c","d","e","f","g","h","i","j","k","l","m","n","o","p","q","r",
     "s","t","u","v","w","x","y","z"}
Digits == {"0","1","2","3","4","5","6","7","8","9"}
\* urllib.parse.scheme_chars
SchemeChars == Letters \cup Digits \cup {"+", "-", "."}

\* end of the greedy match of [a-f0-9-]+ that starts at position from
HexRunEnd(s, from) ==
    SetMax({j \in from..Len(s) : \A k \in from..j : s[k] \in HexChars})

\* extract_share_id: re.search finds the leftmost place of the whole URL where
\* the pattern matches, and group(1) is the greedy run of [a-f0-9-] there
ExtractShareId(u) ==
    LET starts == {i \in 1..Len(u) :
                      /\ IsPrefixAt(SharePattern, u, i)
                      /\ i + Len(SharePattern) <= Len(u)
                      /\ u[i + Len(SharePattern)] \in HexChars}
    IN IF starts = {} THEN None
       ELSE LET from == SetMin(starts) + Len(SharePattern)
            IN SubSeq(u, from, HexRunEnd(u, from))

\* urllib.parse.urlparse, as far as netloc and path go: an optional scheme up
\* to the first ':', a netloc after '//' up to the first of '/?#', and the
\* path up to the first '#' or '?'
UrlParse(u) ==
    LET colon     == FindChar(u, ":")
        hasScheme == /\ colon > 1
                     /\ u[1] \in Letters
                     /\ \A k \in 1..(colon - 1) : u[k] \in SchemeChars
        rest1     == IF hasScheme THEN SubSeq(u, colon + 1, Len(u)) ELSE u
        hasNetloc == StartsWith(rest1, <<"/", "/">>)
        netEnd    == FindAnyFrom(rest1, {"/", "?", "#"}, 3)
        netloc    == IF hasNetloc THEN SubSeq(rest1, 3, netEnd - 1) ELSE <<>>
        rest2     == IF hasNetloc THEN SubSeq(rest1, netEnd, Len(rest1)) ELSE rest1
        pathEnd   == FindAnyFrom(rest2, {"?", "#"}, 1)
    IN [netloc |-> netloc, path |-> SubSeq(rest2, 1, pathEnd - 1)]

ClaudeHost == <<"c","l","a","u","d","e",".","a","i">>
SharePath  == <<"/","s","h","a","r","e","/">>

\* the URL of a share page up to the share id
CanonicalPrefix == <<"h","t","t","p","s",":","/","/">> \o ClaudeHost \o SharePath

\* is_valid_claude_share_url
IsValidClaudeShareUrl(u) ==
    LET parsed == UrlParse(u)
    IN /\ parsed.netloc = ClaudeHost
       /\ StartsWith(parsed.path, SharePath)
       /\ ExtractShareId(u) # None

(***************************************************************************)
(* parser.py: _extract_title                                               *)
(* A text is a sequence of tokens: "x" a visible character, " " and "\n"   *)
(* white space, "|" the bar, "Claude" the site name.                       *)
(***************************************************************************)
\* "\n\n" is the blank line that joins rendered parts
WhiteSpace == {" ", "\n", "\n\n"}
TitleTokens == {"x", " ", "|", "Claude", "\n"}

\* the selectors of title_selectors, in priority order:
\* .truncate, title, h1, [data-testid="chat-title"], .chat-title, .conversation-title
NumTitleSelectors == 6

Untitled == <<"Untitled Conversation">>
SiteName == <<"Claude">>

\* str.strip()
Strip(s) ==
    LET keep == {i \in 1..Len(s) : s[i] \notin WhiteSpace}
    IN IF keep = {} THEN <<>> ELSE SubSeq(s, SetMin(keep), SetMax(keep))

\* the regular expression \s*\|\s*Claude.*$ matches s from position i: white
\* space, the bar, white space, the site name, then characters other than a
\* line break up to the end of the text (no MULTILINE flag, no DOTALL flag)
SuffixMatchesAt(s, i) ==
    \E j \in i..Len(s) : \E k \in (j + 1)..Len(s) :
        /\ \A m \in i..(j - 1) : s[m] \in WhiteSpace
        /\ s[j] = "|"
        /\ \A m \in (j + 1)..(k - 1) : s[m] \in WhiteSpace
        /\ s[k] = "Claude"
        /\ \A m \in (k + 1)..Len(s) : s[m] # "\n"

\* re.sub(r'\s*\|\s*Claude.*$', '', title): the leftmost match runs to the
\* end of the text and is removed
StripClaudeSuffix(s) ==
    LET hits == {i \in 1..Len(s) : SuffixMatchesAt(s, i)}
    IN IF hits = {} THEN s ELSE SubSeq(s, 1, SetMin(hits) - 1)

\* re.sub(r'\s+', ' ', title): every run of white space becomes one space
RECURSIVE NormalizeWhitespace(_)
NormalizeWhitespace(s) ==
    IF s = <<>> THEN <<>>
    ELSE IF Head(s) \in WhiteSpace
         THEN LET rest == NormalizeWhitespace(Tail(s))
              IN IF rest # <<>> /\ Head(rest) = " " THEN rest ELSE <<" ">> \o rest
         ELSE <<Head(s)>> \o NormalizeWhitespace(Tail(s))

\* the clean-up of lines 87-90
CleanTitle(text) == NormalizeWhitespace(StripClaudeSuffix(Strip(text)))

\* the loop of _extract_title from selector k on
RECURSIVE TitleFrom(_, _)
TitleFrom(c, k) ==
    IF k > NumTitleSelectors THEN Untitled
    ELSE IF c[k] # None /\ Strip(c[k]) # <<>>
         THEN LET t == CleanTitle(c[k])
              IN IF t # <<>> /\ t # SiteName THEN t ELSE TitleFrom(c, k + 1)
         ELSE TitleFrom(c, k + 1)

\* _extract_title
ExtractTitle(c) == TitleFrom(c, 1)

(***************************************************************************)
(* parser.py: rendering one turn container (_extract_message_content)      *)
(*                                                                         *)
(* A turn container is a record                                            *)
(*   marker  the text pieces below its first descendant carrying           *)
(*           data-testid="user-message", NoMarker when it has none         *)
(*   fcr     whether a direct child carries the class font-claude-response *)
(*   divs    the div elements below that child (below the container when   *)
(*           there is none), in document order; each with its class        *)
(*           tokens, the text of its leading <p> child, and its parent:    *)
(*           0 for the wrapper, else the index of the enclosing div        *)
(* A class token is a sequence of characters, because the code tests       *)
(* class names by substring.                                               *)
(***************************************************************************)
\* element.find(attrs={'data-testid': 'user-message'}) is None
NoMarker == <<>>
ThinkingLabel == "**Thinking Process:**"
BlankLine == "\n\n"

GridCols == <<"g","r","i","d","-","c","o","l","s","-","1">>
Gap25    == <<"g","a","p","-","2",".","5">>
Gap3     == <<"g","a","p","-","3">>
P3       == <<"p","-","3">>
Pt0      == <<"p","t","-","0">>
Pr8      == <<"p","r","-","8">>

\* pattern in ' '.join(classes): no pattern holds a space, so the pattern
\* lies inside one class token
InClassStr(pat, classes) ==
    \E c \in classes : \E i \in 1..Len(c) : IsPrefixAt(pat, c, i)

\* the elements of a sequence
Range(s) == {s[k] : k \in 1..Len(s)}

RECURSIVE Flatten(_)
Flatten(ss) == IF ss = <<>> THEN <<>> ELSE Head(ss) \o Flatten(Tail(ss))

\* sep.join(parts)
RECURSIVE Join(_, _)
Join(parts, sep) ==
    IF parts = <<>> THEN <<>>
    ELSE IF Len(parts) = 1 THEN parts[1]
    ELSE parts[1] \o <<sep>> \o Join(Tail(parts), sep)

NonEmpty(s) == s # <<>>

\* element.get_text(strip=True): every text piece stripped, empty ones dropped
RECURSIVE GetTextStrip(_)
GetTextStrip(pieces) ==
    IF pieces = <<>> THEN <<>>
    ELSE Strip(Head(pieces)) \o GetTextStrip(Tail(pieces))

\* the divs of t enclosed by div i, in document order
RECURSIVE DivEncloses(_, _, _)
DivEncloses(t, i, j) ==
    /\ j > i
    /\ t.divs[j].parent # 0
    /\ (t.divs[j].parent = i \/ DivEncloses(t, i, t.divs[j].parent))

\* div.get_text(): its own text, then the text of the divs it encloses
DivGetText(t, i) ==
    LET idx   == [j \in 1..Len(t.divs) |-> j]
        In(j) == j = i \/ DivEncloses(t, i, j)
        inner == SelectSeq(idx, In)
    IN Flatten([k \in 1..Len(inner) |-> t.divs[inner[k]].text])

\* _format_html_element for a <p>: its stripped text; for a <div> without a
\* code block: the stripped text of everything in it
FormatParagraph(text) == Strip(text)
FormatDiv(t, j) == Strip(DivGetText(t, j))

\* _extract_structured_content(div i): each child element formatted, the
\* non-empty results stripped and joined by blank lines
ExtractStructuredContent(t, i) ==
    LET idx      == [j \in 1..Len(t.divs) |-> j]
        Child(j) == t.divs[j].parent = i
        kids     == SelectSeq(idx, Child)
        blocks   == <<FormatParagraph(t.divs[i].text)>>
                    \o [k \in 1..Len(kids) |-> FormatDiv(t, kids[k])]
        kept     == SelectSeq(blocks, NonEmpty)
    IN Join([k \in 1..Len(kept) |-> Strip(kept[k])], BlankLine)

\* the test of _extract_thinking_process, lines 470-473
LooksLikeThinking(classes) ==
    /\ InClassStr(GridCols, classes)
    /\ InClassStr(P3, classes)
    /\ InClassStr(Pt0, classes)
    /\ InClassStr(Pr8, classes)

\* the test of _extract_claude_main_response, lines 497-501
LooksLikeMainResponse(classes) ==
    /\ InClassStr(GridCols, classes)
    /\ InClassStr(Gap25, classes)
    /\ ~InClassStr(P3, classes)
    /\ ~InClassStr(Pt0, classes)
    /\ ~InClassStr(Pr8, classes)

\* the smallest member of a set of div indexes, 0 for the empty set
FirstOf(hits) == IF hits = {} THEN 0 ELSE SetMin(hits)

\* _extract_thinking_process: the first div below the response wrapper that
\* passes the test
ExtractThinkingProcess(t) ==
    IF ~t.fcr THEN <<>>
    ELSE LET i == FirstOf({j \in 1..Len(t.divs) : LooksLikeThinking(t.divs[j].cls)})
         IN IF i = 0 THEN <<>> ELSE ExtractStructuredContent(t, i)

\* _extract_claude_main_response
ExtractClaudeMainResponse(t) ==
    IF ~t.fcr THEN <<>>
    ELSE LET i == FirstOf({j \in 1..Len(t.divs) : LooksLikeMainResponse(t.divs[j].cls)})
         IN IF i = 0 THEN <<>> ELSE ExtractStructuredContent(t, i)

\* _extract_message_content
ExtractMessageContent(t) ==
    IF t.marker # NoMarker THEN GetTextStrip(t.marker)
    ELSE LET thinking == ExtractThinkingProcess(t)
             main     == ExtractClaudeMainResponse(t)
             parts    == (IF thinking # <<>>
                          THEN << <<ThinkingLabel, BlankLine>> \o thinking >>
                          ELSE <<>>)
                         \o (IF main # <<>> THEN <<main>> ELSE <<>>)
         IN Strip(Join(parts, BlankLine))

(***************************************************************************)
(* parser.py: locating the turns of a document                             *)
(*                                                                         *)
(* A document is a record: n elements, numbered 1..n in document order     *)
(* (depth first, left to right); parent[i] is the parent of element i, 0   *)
(* being the BeautifulSoup object itself; kind[i] says what element i is:  *)
(*   "plain"   a div without the attributes and classes looked for         *)
(*   "main"    a <main> element                                            *)
(*   "styled"  a div whose classes hold rounded-xl and bg-bg-300           *)
(*   "marker"  an element with data-testid="user-message"                  *)
(*   "stream"  a div with data-is-streaming="false"                        *)
(*   "both"    a div with data-is-streaming="false" and the styled classes *)
(* txt[i] is the text directly in element i; for a "stream"/"both"         *)
(* element it is the text of the paragraph of its response                 *)
(* (font-claude-response > grid-cols-1 gap-2.5 > p), and an empty txt      *)
(* means that it has no font-claude-response child.  Elements are the only *)
(* siblings counted: the documents have no text between elements.          *)
(***************************************************************************)
\* position += 1000 (line 197)
ParentWeight == 1000
\* for _ in range(10) (line 151)
LookUpLevels == 10

Elements(d) == 1..d.n

\* the proper ancestors of element i, the soup (0) included
RECURSIVE Ancestors(_, _)
Ancestors(d, i) ==
    IF i = 0 THEN {} ELSE {d.parent[i]} \cup Ancestors(d, d.parent[i])

\* container.find_all(...) searches the descendants of container
Descendants(d, c) == {i \in Elements(d) : c \in Ancestors(d, i)}

\* the elements of S as a sequence in document order
RECURSIVE InDocOrder(_)
InDocOrder(S) ==
    IF S = {} THEN <<>>
    ELSE <<SetMin(S)>> \o InDocOrder(S \ {SetMin(S)})

IsMarker(d, i) == d.kind[i] = "marker"
IsStyled(d, i) == i # 0 /\ d.kind[i] \in {"styled", "both"}
IsStreamDiv(d, i) == d.kind[i] \in {"stream", "both"}

\* the first selector of conversation_selectors that finds an element, else
\* the soup
ConversationContainer(d) ==
    LET mains == {i \in Elements(d) : d.kind[i] = "main"}
    IN IF mains = {} THEN 0 ELSE SetMin(mains)

\* lines 150-159: from cur, go up at most left levels to the first ancestor
\* with the rounded styling; 0 when there is none
RECURSIVE StyledAncestor(_, _, _)
StyledAncestor(d, cur, left) ==
    IF left = 0 \/ cur = 0 THEN 0
    ELSE IF IsStyled(d, d.parent[cur]) THEN d.parent[cur]
    ELSE StyledAncestor(d, d.parent[cur], left - 1)

\* _get_simple_position: at every level from the element up, the number of
\* preceding siblings, plus 1000 for every parent reached
RECURSIVE GetSimplePosition(_, _)
GetSimplePosition(d, cur) ==
    IF cur = 0 THEN 0
    ELSE Cardinality({j \in Elements(d) : j < cur /\ d.parent[j] = d.parent[cur]})
         + ParentWeight
         + GetSimplePosition(d, d.parent[cur])

\* list.sort(key=...) is stable: insert x after the entries whose key is not greater
RECURSIVE InsertByKey(_, _, _)
InsertByKey(d, sorted, x) ==
    IF sorted = <<>> THEN <<x>>
    ELSE IF GetSimplePosition(d, x) < GetSimplePosition(d, Head(sorted))
         THEN <<x>> \o sorted
         ELSE <<Head(sorted)>> \o InsertByKey(d, Tail(sorted), x)

RECURSIVE SortByPosition(_, _)
SortByPosition(d, s) ==
    IF s = <<>> THEN <<>>
    ELSE InsertByKey(d, SortByPosition(d, SubSeq(s, 1, Len(s) - 1)), s[Len(s)])

\* lines 147-159: per user-message element, its styled ancestor if it has one
UserContainers(d, c) ==
    LET markers == InDocOrder({i \in Descendants(d, c) : IsMarker(d, i)})
        found   == [k \in 1..Len(markers) |-> StyledAncestor(d, markers[k], LookUpLevels)]
        Found(x) == x # 0
    IN SelectSeq(found, Found)

\* lines 162-164
ClaudeContainers(d, c) == InDocOrder({i \in Descendants(d, c) : IsStreamDiv(d, i)})

\* _find_message_turns
FindMessageTurns(d, c) ==
    SortByPosition(d, UserContainers(d, c) \o ClaudeContainers(d, c))

\* the text pieces of element i and of everything below it, in document order
TextPieces(d, i) ==
    LET sub == InDocOrder({i} \cup Descendants(d, i))
    IN [k \in 1..Len(sub) |-> d.txt[sub[k]]]

\* the element as _extract_message_content and _determine_message_role see it
TurnOf(d, i) ==
    LET markers == {j \in Descendants(d, i) : IsMarker(d, j)}
        body    == IsStreamDiv(d, i) /\ d.txt[i] # <<>>
    IN [marker |-> IF markers = {} THEN NoMarker ELSE TextPieces(d, SetMin(markers)),
        fcr    |-> body,
        divs   |-> IF body
                   THEN << [cls |-> {GridCols, Gap25}, text |-> d.txt[i], parent |-> 0] >>
                   ELSE <<>>]

\* _determine_message_role; none of the modelled elements holds a div whose
\* string is 'D', nor a class with user-message, human-message,
\* claude-message or assistant-message in it
DetermineMessageRole(d, i, index) ==
    LET t    == TurnOf(d, i)
        text == Flatten(TextPieces(d, i))
    IN IF t.marker # NoMarker THEN "human"
       ELSE IF t.fcr THEN "assistant"
       ELSE IF \E j \in Descendants(d, i) : IsStreamDiv(d, j) THEN "assistant"
       ELSE IF text # <<>> /\ Head(text) = "Human:" THEN "human"
       ELSE IF text # <<>> /\ Head(text) = "Claude:" THEN "assistant"
       ELSE IF index % 2 = 0 THEN "human" ELSE "assistant"

\* _parse_message_element returning None
NoMessage == [role |-> "none", content |-> <<>>, index |-> -1, node |-> 0]

\* _parse_message_element; node is the element the message came from, kept
\* to tell turns apart (the Turn's sourceNode)
ParseMessageElement(d, i, index) ==
    LET content == ExtractMessageContent(TurnOf(d, i))
    IN IF Strip(content) = <<>> THEN NoMessage
       ELSE [role |-> DetermineMessageRole(d, i, index), content |-> content,
             index |-> index, node |-> i]

\* the loop of _extract_messages over elements k..Len(elements)
RECURSIVE MessagesFrom(_, _, _)
MessagesFrom(d, elements, k) ==
    IF k > Len(elements) THEN <<>>
    ELSE LET message == ParseMessageElement(d, elements[k], k - 1)
         IN (IF message # NoMessage /\ Strip(message.content) # <<>>
             THEN <<message>> ELSE <<>>)
            \o MessagesFrom(d, elements, k + 1)

\* the loop of _extract_messages without the two emptiness tests (lines 137
\* and 379): every located container becomes a message
ExtractMessagesKeepAll(d) ==
    LET elements == FindMessageTurns(d, ConversationContainer(d))
    IN [k \in 1..Len(elements) |->
          [role |-> DetermineMessageRole(d, elements[k], k - 1),
           content |-> ExtractMessageContent(TurnOf(d, elements[k])),
           index |-> k - 1, node |-> elements[k]]]

\* _extract_messages
ExtractMessages(d) ==
    MessagesFrom(d, FindMessageTurns(d, ConversationContainer(d)), 1)

(***************************************************************************)
(* Idle values: what a specification leaves the other parts at             *)
(***************************************************************************)
NoCands == [k \in 1..NumTitleSelectors |-> None]
EmptyDoc == [n |-> 0, parent |-> <<>>, kind |-> <<>>, txt |-> <<>>]
NoTurn == [marker |-> NoMarker, fcr |-> FALSE, divs |-> <<>>]

UrlIdle ==
    /\ url = <<>>
    /\ urlValid = "unset"
    /\ urlShareId = Unset
    /\ upc = "idle"

TitleIdle ==
    /\ cands = NoCands
    /\ titleOut = Unset
    /\ tpc = "idle"

RenderIdle ==
    /\ turn = NoTurn
    /\ rendered = Unset
    /\ rpc = "idle"

ParseIdle ==
    /\ doc = EmptyDoc
    /\ pc = "idle"
    /\ share_id = None
    /\ title = None
    /\ messages = <<>>
    /\ metadata = <<>>
    /\ fault = "none"
    /\ result = Unset

\* the variables of the further specifications
laterVars == <<cleanup, fetch, fetchAdv, markdown, conc, lang, fenced, verdict, climb, store, scrape, batch>>

Idle == [pc |-> "idle"]
LaterIdle == cleanup = Idle /\ fetch = Idle /\ fetchAdv = Idle /\ markdown = Idle /\ conc = Idle /\ lang = Idle /\ fenced = Idle /\ verdict = Idle /\ climb = Idle /\ store = Idle /\ scrape = Idle /\ batch = Idle

RestOfCleanup == <<urlVars, titleVars, renderVars, parseVars, fetch, fetchAdv, markdown, conc, lang, fenced, verdict, climb, store, scrape, batch>>
IdleButCleanup ==
    /\ UrlIdle /\ TitleIdle /\ RenderIdle /\ ParseIdle
    /\ fetch = Idle
    /\ fetchAdv = Idle
    /\ markdown = Idle
    /\ conc = Idle
    /\ lang = Idle
    /\ fenced = Idle
    /\ verdict = Idle
    /\ climb = Idle
    /\ store = Idle
    /\ scrape = Idle
    /\ batch = Idle

RestOfFetch == <<urlVars, titleVars, renderVars, parseVars, cleanup, fetchAdv, markdown, conc, lang, fenced, verdict, climb, store, scrape, batch>>
IdleButFetch ==
    /\ UrlIdle /\ TitleIdle /\ RenderIdle /\ ParseIdle
    /\ cleanup = Idle
    /\ fetchAdv = Idle
    /\ markdown = Idle
    /\ conc = Idle
    /\ lang = Idle
    /\ fenced = Idle
    /\ verdict = Idle
    /\ climb = Idle
    /\ store = Idle
    /\ scrape = Idle
    /\ batch = Idle

RestOfFetchAdv == <<urlVars, titleVars, renderVars, parseVars, cleanup, fetch, markdown, conc, lang, fenced, verdict, climb, store, scrape, batch>>
IdleButFetchAdv ==
    /\ UrlIdle /\ TitleIdle /\ RenderIdle /\ ParseIdle
    /\ cleanup = Idle
    /\ fetch = Idle
    /\ markdown = Idle
    /\ conc = Idle
    /\ lang = Idle
    /\ fenced = Idle
    /\ verdict = Idle
    /\ climb = Idle
    /\ store = Idle
    /\ scrape = Idle
    /\ batch = Idle

RestOfMarkdown == <<urlVars, titleVars, renderVars, parseVars, cleanup, fetch, fetchAdv, conc, lang, fenced, verdict, climb, store, scrape, batch>>
IdleButMarkdown ==
    /\ UrlIdle /\ TitleIdle /\ RenderIdle /\ ParseIdle
    /\ cleanup = Idle
    /\ fetch = Idle
    /\ fetchAdv = Idle
    /\ conc = Idle
    /\ lang = Idle
    /\ fenced = Idle
    /\ verdict = Idle
    /\ climb = Idle
    /\ store = Idle
    /\ scrape = Idle
    /\ batch = Idle

RestOfConc == <<urlVars, titleVars, renderVars, parseVars, cleanup, fetch, fetchAdv, markdown, lang, fenced, verdict, climb, store, scrape, batch>>
IdleButConc ==
    /\ UrlIdle /\ TitleIdle /\ RenderIdle /\ ParseIdle
    /\ cleanup = Idle
    /\ fetch = Idle
    /\ fetchAdv = Idle
    /\ markdown = Idle
    /\ lang = Idle
    /\ fenced = Idle
    /\ verdict = Idle
    /\ climb = Idle
    /\ store = Idle
    /\ scrape = Idle
    /\ batch = Idle

RestOfLang == <<urlVars, titleVars, renderVars, parseVars, cleanup, fetch, fetchAdv, markdown, conc, fenced, verdict, climb, store, scrape, batch>>
IdleButLang ==
    /\ UrlIdle /\ TitleIdle /\ RenderIdle /\ ParseIdle
    /\ cleanup = Idle
    /\ fetch = Idle
    /\ fetchAdv = Idle
    /\ markdown = Idle
    /\ conc = Idle
    /\ fenced = Idle
    /\ verdict = Idle
    /\ climb = Idle
    /\ store = Idle
    /\ scrape = Idle
    /\ batch = Idle

RestOfFenced == <<urlVars, titleVars, renderVars, parseVars, cleanup, fetch, fetchAdv, markdown, conc, lang, verdict, climb, store, scrape, batch>>
IdleButFenced ==
    /\ UrlIdle /\ TitleIdle /\ RenderIdle /\ ParseIdle
    /\ cleanup = Idle
    /\ fetch = Idle
    /\ fetchAdv = Idle
    /\ markdown = Idle
    /\ conc = Idle
    /\ lang = Idle
    /\ verdict = Idle
    /\ climb = Idle
    /\ store = Idle
    /\ scrape = Idle
    /\ batch = Idle

RestOfVerdict == <<urlVars, titleVars, renderVars, parseVars, cleanup, fetch, fetchAdv, markdown, conc, lang, fenced, climb, store, scrape, batch>>
IdleButVerdict ==
    /\ UrlIdle /\ TitleIdle /\ RenderIdle /\ ParseIdle
    /\ cleanup = Idle
    /\ fetch = Idle
    /\ fetchAdv = Idle
    /\ markdown = Idle
    /\ conc = Idle
    /\ lang = Idle
    /\ fenced = Idle
    /\ climb = Idle
    /\ store = Idle
    /\ scrape = Idle
    /\ batch = Idle

RestOfClimb == <<urlVars, titleVars, renderVars, parseVars, cleanup, fetch, fetchAdv, markdown, conc, lang, fenced, verdict, store, scrape, batch>>
IdleButClimb ==
    /\ UrlIdle /\ TitleIdle /\ RenderIdle /\ ParseIdle
    /\ cleanup = Idle
    /\ fetch = Idle
    /\ fetchAdv = Idle
    /\ markdown = Idle
    /\ conc = Idle
    /\ lang = Idle
    /\ fenced = Idle
    /\ verdict = Idle
    /\ store = Idle
    /\ scrape = Idle
    /\ batch = Idle

RestOfStore == <<urlVars, titleVars, renderVars, parseVars, cleanup, fetch, fetchAdv, markdown, conc, lang, fenced, verdict, climb, scrape, batch>>
IdleButStore ==
    /\ UrlIdle /\ TitleIdle /\ RenderIdle /\ ParseIdle
    /\ cleanup = Idle
    /\ fetch = Idle
    /\ fetchAdv = Idle
    /\ markdown = Idle
    /\ conc = Idle
    /\ lang = Idle
    /\ fenced = Idle
    /\ verdict = Idle
    /\ climb = Idle
    /\ scrape = Idle
    /\ batch = Idle

RestOfScrape == <<urlVars, titleVars, renderVars, parseVars, cleanup, fetch, fetchAdv, markdown, conc, lang, fenced, verdict, climb, store, batch>>
IdleButScrape ==
    /\ UrlIdle /\ TitleIdle /\ RenderIdle /\ ParseIdle
    /\ cleanup = Idle
    /\ fetch = Idle
    /\ fetchAdv = Idle
    /\ markdown = Idle
    /\ conc = Idle
    /\ lang = Idle
    /\ fenced = Idle
    /\ verdict = Idle
    /\ climb = Idle
    /\ store = Idle
    /\ batch = Idle

RestOfBatch == <<urlVars, titleVars, renderVars, parseVars, cleanup, fetch, fetchAdv, markdown, conc, lang, fenced, verdict, climb, store, scrape>>
IdleButBatch ==
    /\ UrlIdle /\ TitleIdle /\ RenderIdle /\ ParseIdle
    /\ cleanup = Idle
    /\ fetch = Idle
    /\ fetchAdv = Idle
    /\ markdown = Idle
    /\ conc = Idle
    /\ lang = Idle
    /\ fenced = Idle
    /\ verdict = Idle
    /\ climb = Idle
    /\ store = Idle
    /\ scrape = Idle

\* end of frames

(***************************************************************************)
(* SpecTitle: _extract_title on documents in which up to two selectors     *)
(* find an element                                                         *)
(***************************************************************************)
TitleTexts == SeqsUpTo(TitleTokens, MaxTitleLen)
\* texts of the second candidate
SecondTexts == { <<"x">>, <<"Claude">> }

\* no candidate, one candidate under any selector, or two candidates under
\* neighbouring selectors (either one may be the long text)
IsTitleDoc(c) ==
    \/ c = NoCands
    \/ \E p \in 1..NumTitleSelectors : \E t \in TitleTexts :
          c = [NoCands EXCEPT ![p] = t]
    \/ \E p \in 1..(NumTitleSelectors - 1) : \E t \in TitleTexts : \E u \in SecondTexts :
          \/ c = [NoCands EXCEPT ![p] = t, ![p + 1] = u]
          \/ c = [NoCands EXCEPT ![p] = u, ![p + 1] = t]

InitTitle ==
    /\ IsTitleDoc(cands)
    /\ titleOut = Unset
    /\ tpc = "start"
    /\ UrlIdle
    /\ RenderIdle
    /\ ParseIdle
    /\ LaterIdle

\* self.title = self._extract_title(soup)
ExtractTitleStep ==
    /\ tpc = "start"
    /\ titleOut' = ExtractTitle(cands)
    /\ tpc' = "done"
    /\ UNCHANGED cands
    /\ UNCHANGED urlVars
    /\ UNCHANGED renderVars
    /\ UNCHANGED parseVars
    /\ UNCHANGED laterVars

NextTitle == ExtractTitleStep

SpecTitle == InitTitle /\ [][NextTitle]_vars

(***************************************************************************)
(* The URLs the URL specification draws from                               *)
(***************************************************************************)
UrlSchemes == { <<"h","t","t","p","s",":","/","/">>, <<>> }
UrlHosts ==
    { ClaudeHost,
      <<"x","c","l","a","u","d","e",".","a","i">>,
      <<"e","v","i","l",".","i","o">> }
UrlPrefixes == { SharePath, <<"/","c","h","a","t","/">> }
SegChars == {"a", "0", "-", "z"}
UrlTails ==
    { <<>>,
      <<"/","x">>,
      <<"?","q","=">> \o ClaudeHost \o SharePath \o <<"b","4">> }

IsUrl(u) ==
    \E sc \in UrlSchemes : \E h \in UrlHosts : \E p \in UrlPrefixes :
    \E seg \in SeqsUpTo(SegChars, MaxSeg) : \E t \in UrlTails :
        u = sc \o h \o p \o seg \o t

(***************************************************************************)
(* SpecUrl: main.py validates the URL, then takes its share id             *)
(***************************************************************************)
InitUrl ==
    /\ IsUrl(url)
    /\ urlValid = "unset"
    /\ urlShareId = Unset
    /\ upc = "start"
    /\ TitleIdle
    /\ RenderIdle
    /\ ParseIdle
    /\ LaterIdle

\* main.py scrape: if not is_valid_claude_share_url(url): exit
ValidateUrl ==
    /\ upc = "start"
    /\ urlValid' = IsValidClaudeShareUrl(url)
    /\ upc' = "validated"
    /\ UNCHANGED <<url, urlShareId>>
    /\ UNCHANGED titleVars
    /\ UNCHANGED renderVars
    /\ UNCHANGED parseVars
    /\ UNCHANGED laterVars

\* share_id = extract_share_id(url): main.py after validation, and
\* parse_html on whatever URL it is given
TakeShareId ==
    /\ upc = "validated"
    /\ urlShareId' = ExtractShareId(url)
    /\ upc' = "done"
    /\ UNCHANGED <<url, urlValid>>
    /\ UNCHANGED titleVars
    /\ UNCHANGED renderVars
    /\ UNCHANGED parseVars
    /\ UNCHANGED laterVars

NextUrl == ValidateUrl \/ TakeShareId

SpecUrl == InitUrl /\ [][NextUrl]_vars

(***************************************************************************)
(* SpecRender: _extract_message_content on assistant turn containers       *)
(***************************************************************************)
\* class attributes a div below the response wrapper may carry
DivClasses ==
    { {},
      {GridCols, Gap25},
      {GridCols, Gap25, P3, Pt0, Pr8},
      {GridCols, P3, Pt0, Pr8},
      {GridCols, Gap3, Pt0, Pr8} }

\* the text of the i-th div: none, blank, or a word of its own
DivWords == <<"t1", "t2", "t3", "t4", "t5", "t6">>
DivText(i, choice) ==
    IF choice = "none" THEN <<>> ELSE IF choice = "blank" THEN <<" ">> ELSE <<DivWords[i]>>

\* n divs: div i lies directly below the wrapper, or (i > 1, inner[i]) inside
\* the div before it
MakeDivs(n, cls, text, inner) ==
    [i \in 1..n |-> [cls |-> cls[i], text |-> DivText(i, text[i]),
                     parent |-> IF i > 1 /\ inner[i] THEN i - 1 ELSE 0]]

\* a container with a user-message element in it
UserTurn ==
    [marker |-> << <<" ">>, <<"u">> >>, fcr |-> TRUE,
     divs |-> << [cls |-> {GridCols, Gap25}, text |-> <<"t1">>, parent |-> 0] >>]

IsTurn(t) ==
    \/ t = UserTurn
    \/ \E f \in BOOLEAN : \E n \in 0..MaxDivs :
         \E cls \in [1..n -> DivClasses] :
         \E text \in [1..n -> {"none", "blank", "word"}] :
         \E inner \in [1..n -> BOOLEAN] :
            /\ n > 0 => ~inner[1]
            /\ t = [marker |-> NoMarker, fcr |-> f,
                    divs |-> MakeDivs(n, cls, text, inner)]

InitRender ==
    /\ IsTurn(turn)
    /\ rendered = Unset
    /\ rpc = "start"
    /\ UrlIdle
    /\ TitleIdle
    /\ ParseIdle
    /\ LaterIdle

\* content = self._extract_message_content(element)
RenderTurn ==
    /\ rpc = "start"
    /\ rendered' = ExtractMessageContent(turn)
    /\ rpc' = "done"
    /\ UNCHANGED turn
    /\ UNCHANGED urlVars
    /\ UNCHANGED titleVars
    /\ UNCHANGED parseVars
    /\ UNCHANGED laterVars

NextRender == RenderTurn

SpecRender == InitRender /\ [][NextRender]_vars

(***************************************************************************)
(* Spec: ConversationParser.parse_html(html_content, url)                  *)
(***************************************************************************)
\* parent sequences of n elements numbered in document order: the parent of
\* element n is element n-1 or one of its ancestors
RECURSIVE ParentSeqs(_)
ParentSeqs(n) ==
    IF n = 0 THEN {<<>>}
    ELSE UNION { {Append(ps, q) :
                    q \in IF n = 1 THEN {0}
                          ELSE {n - 1} \cup Ancestors([parent |-> ps], n - 1)} :
                 ps \in ParentSeqs(n - 1) }

\* what an element of a page with the share page's structure may be
StructLabels ==
    { [kind |-> "plain",  txt |-> <<>>],
      [kind |-> "main",   txt |-> <<>>],
      [kind |-> "styled", txt |-> <<>>],
      [kind |-> "marker", txt |-> <<" ">>],
      [kind |-> "marker", txt |-> <<"a">>],
      [kind |-> "stream", txt |-> <<>>],
      [kind |-> "stream", txt |-> <<" ">>],
      [kind |-> "stream", txt |-> <<"a">>],
      [kind |-> "both",   txt |-> <<"a">>] }

\* what an element of a page of labelled text blocks may be
LabelledLabels ==
    { [kind |-> "plain", txt |-> <<"Human:", "a">>],
      [kind |-> "plain", txt |-> <<"Claude:", "a">>] }

MakeDoc(n, ps, lab) ==
    [n |-> n, parent |-> ps,
     kind |-> [i \in 1..n |-> lab[i].kind],
     txt |-> [i \in 1..n |-> lab[i].txt]]

\* html_content: the empty document "" is the one with n = 0
IsParseDoc(d) ==
    \E n \in 0..MaxNodes : \E ps \in ParentSeqs(n) :
        \/ \E lab \in [1..n -> StructLabels] : d = MakeDoc(n, ps, lab)
        \/ n > 0 /\ \E lab \in [1..n -> LabelledLabels] : d = MakeDoc(n, ps, lab)

\* url: a share URL, or a value that is no string
ParseUrls == { CanonicalPrefix \o <<"a", "0">>, None }

\* the title elements of the document
ParseTitles == { NoCands, [NoCands EXCEPT ![2] = <<"x", " ", "|", " ", "Claude">>] }

\* {'success': False, 'metadata': {}, 'messages': [], 'error': f"Parsing error: ..."}
FailureResult(e) ==
    [success |-> FALSE, metadata |-> <<>>, messages |-> <<>>,
     error |-> <<"Parsing error: ", e>>]

Init ==
    /\ IsParseDoc(doc)
    /\ url \in ParseUrls
    /\ cands \in ParseTitles
    /\ doc.n = 0 => cands = NoCands
    /\ pc = "start"
    /\ share_id = None
    /\ title = None
    /\ messages = <<>>
    /\ metadata = <<>>
    /\ fault = "none"
    /\ result = Unset
    /\ urlValid = "unset" /\ urlShareId = Unset /\ upc = "idle"
    /\ titleOut = Unset /\ tpc = "idle"
    /\ RenderIdle
    /\ LaterIdle

\* lines 35-38: soup = BeautifulSoup(...); self.share_id = extract_share_id(url)
ParseBegin ==
    /\ pc = "start"
    /\ url # None
    /\ share_id' = ExtractShareId(url)
    /\ pc' = "title"
    /\ UNCHANGED <<doc, title, messages, metadata, fault, result>>
    /\ UNCHANGED <<urlVars, titleVars, renderVars>>
    /\ UNCHANGED laterVars

\* lines 41-42
ParseTitle ==
    /\ pc = "title"
    /\ title' = ExtractTitle(cands)
    /\ pc' = "messages"
    /\ UNCHANGED <<doc, share_id, messages, metadata, fault, result>>
    /\ UNCHANGED <<urlVars, titleVars, renderVars>>
    /\ UNCHANGED laterVars

\* line 45
ParseMessages ==
    /\ pc = "messages"
    /\ messages' = ExtractMessages(doc)
    /\ pc' = "build"
    /\ UNCHANGED <<doc, share_id, title, metadata, fault, result>>
    /\ UNCHANGED <<urlVars, titleVars, renderVars>>
    /\ UNCHANGED laterVars

\* lines 48-62
ParseFinish ==
    /\ pc = "build"
    /\ metadata' = [share_id |-> share_id, title |-> title, url |-> url,
                    date |-> None, message_count |-> Len(messages),
                    parsed_at |-> "now"]
    /\ result' = [success |-> TRUE, metadata |-> metadata',
                  messages |-> messages, error |-> None]
    /\ pc' = "done"
    /\ UNCHANGED <<doc, share_id, title, messages, fault>>
    /\ UNCHANGED <<urlVars, titleVars, renderVars>>
    /\ UNCHANGED laterVars

\* parse_html without the except clause of lines 64-70: the exception leaves
\* parse_html and no result is returned
ParseFaultEscapes ==
    /\ \/ pc = "start" /\ url = None /\ fault' = "TypeError"
       \/ pc \in {"title", "messages"} /\ fault' = "RecursionError"
    /\ pc' = "raised"
    /\ UNCHANGED <<doc, share_id, title, messages, metadata, result>>
    /\ UNCHANGED <<urlVars, titleVars, renderVars>>
    /\ UNCHANGED laterVars

\* lines 64-70: an exception inside the try block: the TypeError of
\* re.search on a url that is no string, or an exception out of the library
\* while the title or the messages are extracted (a RecursionError on deep
\* nesting, a MemoryError)
ParseFault ==
    /\ \/ pc = "start" /\ url = None /\ fault' = "TypeError"
       \/ pc \in {"title", "messages"} /\ fault' = "RecursionError"
    /\ result' = FailureResult(fault')
    /\ pc' = "done"
    /\ UNCHANGED <<doc, share_id, title, messages, metadata>>
    /\ UNCHANGED <<urlVars, titleVars, renderVars>>
    /\ UNCHANGED laterVars

\* generate_markdown for a result without success (line 888)
ErrorMarkdown(parsed) == << <<"# Error">>, <<>>, parsed.error >>

\* the role header of a message (line 929)
RoleDisplay(role) == IF role = "human" THEN <<"# Human">> ELSE <<"# Claude">>

\* lines 924-935: the parts appended for messages k..Len(msgs)
RECURSIVE MessageParts(_, _)
MessageParts(msgs, k) ==
    IF k > Len(msgs) THEN <<>>
    ELSE << RoleDisplay(msgs[k].role), <<>>, msgs[k].content, <<>> >>
         \o MessageParts(msgs, k + 1)

\* lines 898-922: title and details; the date line is left out when the
\* metadata hold no date
DetailParts(parsed) ==
    << <<"# ">> \o parsed.metadata.title, <<>>,
       <<"## Conversation Details">>, <<>>,
       <<"- **URL**: ">> \o parsed.metadata.url,
       <<"- **Share ID**: ">> \o parsed.metadata.share_id >>
    \o (IF parsed.metadata.date # None
        THEN << <<"- **Date**: ">> \o parsed.metadata.date >> ELSE <<>>)
    \o << <<"- **Messages**: ", Len(parsed.messages)>>,
          <<"- **Parsed**: ", parsed.metadata.parsed_at>>, <<>>,
          <<"## Conversation">>, <<>> >>

\* generate_markdown with '# Human' as the header of every message
GenerateMarkdownOneHeader(parsed) ==
    IF ~parsed.success THEN ErrorMarkdown(parsed)
    ELSE DetailParts(parsed)
         \o Flatten([k \in 1..Len(parsed.messages) |->
                       << <<"# Human">>, <<>>, parsed.messages[k].content, <<>> >>])

\* generate_markdown: the list markdown_parts, one entry per line-joined part
GenerateMarkdown(parsed) ==
    IF ~parsed.success THEN ErrorMarkdown(parsed)
    ELSE DetailParts(parsed) \o MessageParts(parsed.messages, 1)

\* main.py line 138: markdown_content = parser.generate_markdown(parsed_data)
MarkdownStep ==
    /\ pc = "done"
    /\ markdown = Idle
    /\ markdown' = [pc |-> "done", parts |-> GenerateMarkdown(result)]
    /\ UNCHANGED RestOfMarkdown

Next ==
    ParseBegin \/ ParseTitle \/ ParseMessages \/ ParseFinish \/ ParseFault \/ MarkdownStep

Spec == Init /\ [][Next]_vars

(***************************************************************************)
(* SpecCleanup: CacheManager.cleanup_empty_directories                     *)
(*                                                                         *)
(* cleanup.index maps every share id to the directory of its entry in      *)
(* self.index["conversations"], or to Absent; cleanup.disk is the same for *)
(* index.json; cleanup.fs says of every directory name below               *)
(* conversations/ whether it is "missing", "empty" or has "files".         *)
(* index0 and fs0 keep what index and fs were when the call began.         *)
(***************************************************************************)
CacheShareIds == 1..MaxEntries
CacheDirs == {"d1", "d2", "d3"}
Absent == "absent"

\* the share ids of the index in iteration order (dict order: insertion order)
IndexKeys(index) == InDocOrder({sid \in CacheShareIds : index[sid] # Absent})

InitCleanup ==
    /\ \E index \in [CacheShareIds -> CacheDirs \cup {Absent}] :
       \E fs \in [CacheDirs -> {"missing", "empty", "files"}] :
       \E ioOk \in BOOLEAN :
          cleanup = [pc |-> "scan", index |-> index, disk |-> index, fs |-> fs,
                     index0 |-> index, fs0 |-> fs, ioOk |-> ioOk,
                     pos |-> 1, to_remove |-> <<>>, cleaned |-> 0,
                     saved |-> FALSE, ret |-> -1]
    /\ IdleButCleanup

\* lines 250-258, the test made of one entry by a loop that takes only a
\* missing directory for empty
CleanupScanMissingOnly ==
    /\ cleanup.pc = "scan"
    /\ cleanup.pos <= Len(IndexKeys(cleanup.index))
    /\ LET sid == IndexKeys(cleanup.index)[cleanup.pos]
           dir == cleanup.index[sid]
       IN IF cleanup.fs[dir] = "missing"
          THEN cleanup' = [cleanup EXCEPT !.to_remove = Append(@, sid),
                                          !.cleaned = @ + 1,
                                          !.pos = @ + 1]
          ELSE cleanup' = [cleanup EXCEPT !.pos = @ + 1]
    /\ UNCHANGED RestOfCleanup

\* lines 250-258: one iteration of the loop over the index entries
CleanupScan ==
    /\ cleanup.pc = "scan"
    /\ cleanup.pos <= Len(IndexKeys(cleanup.index))
    /\ LET sid == IndexKeys(cleanup.index)[cleanup.pos]
           dir == cleanup.index[sid]
       IN IF cleanup.fs[dir] \in {"missing", "empty"}
          THEN cleanup' = [cleanup EXCEPT !.to_remove = Append(@, sid),
                                          !.fs[dir] = "missing",
                                          !.cleaned = @ + 1,
                                          !.pos = @ + 1]
          ELSE cleanup' = [cleanup EXCEPT !.pos = @ + 1]
    /\ UNCHANGED RestOfCleanup

\* lines 260-267: the entries are deleted, the index is saved if there was
\* one, the count is returned; _save_index swallows an IOError (lines 54-58)
CleanupFinish ==
    /\ cleanup.pc = "scan"
    /\ cleanup.pos > Len(IndexKeys(cleanup.index))
    /\ LET index == [sid \in CacheShareIds |->
                        IF sid \in Range(cleanup.to_remove) THEN Absent
                        ELSE cleanup.index[sid]]
           save  == cleanup.to_remove # <<>>
       IN cleanup' = [cleanup EXCEPT !.index = index,
                                     !.saved = save,
                                     !.disk = IF save /\ cleanup.ioOk THEN index ELSE @,
                                     !.ret = cleanup.cleaned,
                                     !.pc = "done"]
    /\ UNCHANGED RestOfCleanup

NextCleanup == CleanupScan \/ CleanupFinish

SpecCleanup == InitCleanup /\ [][NextCleanup]_vars

(***************************************************************************)
(* SpecFetch: ClaudeShareScraper.fetch_conversation                        *)
(*                                                                         *)
(* fetch.attempt is the loop variable, fetch.gets the number of            *)
(* session.get(url) calls made, fetch.sleeps the arguments of the backoff  *)
(* time.sleep calls in units of backoff_factor, fetch.errors the exception *)
(* of every failed attempt, fetch.status the status code of the response.  *)
(***************************************************************************)
\* scraper.py binds HTTPAdapter (line 9), cloudscraper, time, random and
\* Retry, never the name requests that the except clauses of lines 185-209
\* look up
RequestsImported == FALSE

\* 2 ** attempt
RECURSIVE Pow2(_)
Pow2(n) == IF n = 0 THEN 1 ELSE 2 * Pow2(n - 1)

\* what session.get can raise
FetchExceptions == {"Timeout", "ConnectionError", "ValueError"}
\* status codes a response can carry
FetchStatuses == {200, 403}
ResponseText == <<"response.text">>

FetchFailure(msg) ==
    [success |-> FALSE, error |-> msg, status_code |-> None, html_content |-> None]

\* lines 185-224: the handler chosen for an exception, when the names in
\* the except clauses resolve
HandlerResult(exc) ==
    IF exc = "Timeout" THEN FetchFailure(<<"Request timeout">>)
    ELSE IF exc = "ConnectionError" THEN FetchFailure(<<"Connection error">>)
    ELSE FetchFailure(<<"Unexpected error: ", exc>>)

InitFetch ==
    /\ \E valid \in BOOLEAN : \E mr \in 0..MaxRetries :
          fetch = [pc |-> "start", valid |-> valid, max_retries |-> mr,
                   attempt |-> 0, gets |-> 0, sleeps |-> <<>>, errors |-> <<>>,
                   status |-> 0, raised |-> "none", result |-> Unset]
    /\ IdleButFetch

\* lines 140-147
FetchInvalid ==
    /\ fetch.pc = "start"
    /\ ~fetch.valid
    /\ fetch' = [fetch EXCEPT !.result = FetchFailure(<<"Invalid Claude.ai share URL">>),
                              !.pc = "done"]
    /\ UNCHANGED RestOfFetch

\* line 150
FetchEnter ==
    /\ fetch.pc = "start"
    /\ fetch.valid
    /\ fetch' = [fetch EXCEPT !.pc = "loop"]
    /\ UNCHANGED RestOfFetch

\* lines 155-164 and 172-183: the attempt gets a response
FetchResponse ==
    /\ fetch.pc = "loop"
    /\ \E code \in FetchStatuses :
          fetch' = [fetch EXCEPT
                      !.gets = @ + 1,
                      !.status = code,
                      !.result = [success |-> code = 200,
                                  error |-> IF code = 200 THEN None ELSE <<"HTTP ", code>>,
                                  status_code |-> code,
                                  html_content |-> IF code = 200 THEN ResponseText ELSE None],
                      !.pc = "done"]
    /\ UNCHANGED RestOfFetch

\* lines 166-170: an attempt that is not the last one raises, from the visit
\* of the main page (attempt 0 only) or from the request of the share URL
FetchRetry ==
    /\ fetch.pc = "loop"
    /\ fetch.attempt < fetch.max_retries
    /\ \E exc \in FetchExceptions : \E atMain \in BOOLEAN :
          /\ atMain => fetch.attempt = 0
          /\ fetch' = [fetch EXCEPT
                         !.gets = IF atMain THEN @ ELSE @ + 1,
                         !.errors = Append(@, exc),
                         !.sleeps = Append(@, Pow2(fetch.attempt)),
                         !.attempt = @ + 1]
    /\ UNCHANGED RestOfFetch

\* lines 166-168 and 185-224: the last attempt raises; raise e leaves the
\* inner try and the except clauses of the outer try are evaluated in order,
\* the first of them looking up requests.exceptions.Timeout
FetchGiveUp ==
    /\ fetch.pc = "loop"
    /\ fetch.attempt = fetch.max_retries
    /\ \E exc \in FetchExceptions : \E atMain \in BOOLEAN :
          /\ atMain => fetch.attempt = 0
          /\ fetch' = [fetch EXCEPT
                         !.gets = IF atMain THEN @ ELSE @ + 1,
                         !.errors = Append(@, exc),
                         !.result = IF RequestsImported THEN HandlerResult(exc) ELSE @,
                         !.raised = IF RequestsImported THEN "none" ELSE "NameError",
                         !.pc = IF RequestsImported THEN "done" ELSE "raised"]
    /\ UNCHANGED RestOfFetch

NextFetch == FetchInvalid \/ FetchEnter \/ FetchResponse \/ FetchRetry \/ FetchGiveUp

SpecFetch == InitFetch /\ [][NextFetch]_vars

(***************************************************************************)
(* SpecFetchAdv: ClaudeShareScraper.fetch_conversation_advanced            *)
(*                                                                         *)
(* fetchAdv.calls lists the methods invoked so far, fetchAdv.outcomes what *)
(* each of them did: returned success, returned failure, or raised.        *)
(***************************************************************************)
\* lines 773-778
Methods == <<"SeleniumBase UC Mode", "Undetected ChromeDriver",
             "Enhanced Browser (Selenium)", "Cloudscraper">>

\* how method k can fail: it returns a result with success false, it raises,
\* its library is not installed (lines 298, 501, 633: a failure result), or,
\* for fetch_conversation, the URL is not valid (lines 140-147)
MethodFailures(k) ==
    {"failure", "raised"} \cup (IF k < Len(Methods) THEN {"unavailable"} ELSE {"invalid"})

AllMethodsFailed ==
    [success |-> FALSE, error |-> "All bypass methods failed", by |-> "none"]

InitFetchAdv ==
    /\ fetchAdv = [pc |-> "loop", calls |-> <<>>, outcomes |-> <<>>, result |-> Unset]
    /\ IdleButFetchAdv

\* the except clause of lines 794-796 missing: the exception of a method
\* leaves fetch_conversation_advanced
AdvCrashEscapes ==
    /\ fetchAdv.pc = "loop"
    /\ Len(fetchAdv.calls) < Len(Methods)
    /\ \E out \in MethodFailures(Len(fetchAdv.calls) + 1) :
          fetchAdv' = [fetchAdv EXCEPT
                         !.calls = Append(@, Methods[Len(fetchAdv.calls) + 1]),
                         !.outcomes = Append(@, out),
                         !.pc = IF out = "raised" THEN "raised" ELSE @]
    /\ UNCHANGED RestOfFetchAdv

\* lines 786-790: the next method returns a result with success true
AdvMethodSucceeds ==
    /\ fetchAdv.pc = "loop"
    /\ Len(fetchAdv.calls) < Len(Methods)
    /\ LET m == Methods[Len(fetchAdv.calls) + 1]
       IN fetchAdv' = [fetchAdv EXCEPT
                         !.calls = Append(@, m),
                         !.outcomes = Append(@, "success"),
                         !.result = [success |-> TRUE, error |-> "None", by |-> m],
                         !.pc = "done"]
    /\ UNCHANGED RestOfFetchAdv

\* lines 791-796: the next method returns a result with success false, or
\* raises; the loop goes on
AdvMethodFails ==
    /\ fetchAdv.pc = "loop"
    /\ Len(fetchAdv.calls) < Len(Methods)
    /\ \E out \in MethodFailures(Len(fetchAdv.calls) + 1) :
          fetchAdv' = [fetchAdv EXCEPT
                         !.calls = Append(@, Methods[Len(fetchAdv.calls) + 1]),
                         !.outcomes = Append(@, out)]
    /\ UNCHANGED RestOfFetchAdv

\* lines 798-804: the loop is over
AdvAllFailed ==
    /\ fetchAdv.pc = "loop"
    /\ Len(fetchAdv.calls) = Len(Methods)
    /\ fetchAdv' = [fetchAdv EXCEPT !.result = AllMethodsFailed, !.pc = "done"]
    /\ UNCHANGED RestOfFetchAdv

NextFetchAdv == AdvMethodSucceeds \/ AdvMethodFails \/ AdvAllFailed

SpecFetchAdv == InitFetchAdv /\ [][NextFetchAdv]_vars

(***************************************************************************)
(* SpecConc: two threads, each in one call of parse_html                   *)
(*                                                                         *)
(* conc.inst[c] is the ConversationParser instance call c runs on (the     *)
(* same for both calls, or one each); conc.self[i] holds the attributes of *)
(* instance i; conc.call[c] holds the arguments of call c, its position in *)
(* parse_html and what it returned.  A step is one statement of lines      *)
(* 38-62; between the statements the other thread may run.                 *)
(***************************************************************************)
Calls == {1, 2}

\* the attributes __init__ sets (lines 18-21)
FreshParser == [share_id |-> None, title |-> None, messages |-> <<>>, metadata |-> <<>>]

\* the arguments of a call: a url and a document with its title elements
ConcUrls == { CanonicalPrefix \o <<"a", "0">>, CanonicalPrefix \o <<"b", "1">> }
ConcDocs ==
    { MakeDoc(1, <<0>>, << [kind |-> "stream", txt |-> <<"a">>] >>),
      MakeDoc(2, <<0, 0>>, << [kind |-> "stream", txt |-> <<"a">>],
                              [kind |-> "both", txt |-> <<"a">>] >>),
      EmptyDoc }

InitConc ==
    /\ \E inst \in {<<1, 1>>, <<1, 2>>} :
       \E urls \in [Calls -> ConcUrls] :
       \E docs \in [Calls -> ConcDocs] :
       \E titles \in [Calls -> ParseTitles] :
          conc = [pc |-> "run", inst |-> inst,
                  self |-> [i \in {1, 2} |-> FreshParser],
                  call |-> [c \in Calls |->
                              [pc |-> "start", url |-> urls[c], doc |-> docs[c],
                               cands |-> titles[c], result |-> Unset]]]
    /\ IdleButConc

\* line 38: self.share_id = extract_share_id(url)
ConcShareId(c) ==
    /\ conc.call[c].pc = "start"
    /\ conc' = [conc EXCEPT
                  !.self[conc.inst[c]].share_id = ExtractShareId(conc.call[c].url),
                  !.call[c].pc = "title"]
    /\ UNCHANGED RestOfConc

\* line 41: self.title = self._extract_title(soup)
ConcTitle(c) ==
    /\ conc.call[c].pc = "title"
    /\ conc' = [conc EXCEPT
                  !.self[conc.inst[c]].title = ExtractTitle(conc.call[c].cands),
                  !.call[c].pc = "messages"]
    /\ UNCHANGED RestOfConc

\* line 45: self.messages = self._extract_messages(soup)
ConcMessages(c) ==
    /\ conc.call[c].pc = "messages"
    /\ conc' = [conc EXCEPT
                  !.self[conc.inst[c]].messages = ExtractMessages(conc.call[c].doc),
                  !.call[c].pc = "build"]
    /\ UNCHANGED RestOfConc

\* lines 48-55: self.metadata = {...}, read from the attributes
ConcMetadata(c) ==
    /\ conc.call[c].pc = "build"
    /\ LET me == conc.self[conc.inst[c]]
       IN conc' = [conc EXCEPT
                     !.self[conc.inst[c]].metadata =
                         [share_id |-> me.share_id, title |-> me.title,
                          url |-> conc.call[c].url, date |-> None,
                          message_count |-> Len(me.messages), parsed_at |-> "now"],
                     !.call[c].pc = "return"]
    /\ UNCHANGED RestOfConc

\* lines 57-62: the result refers to self.metadata and self.messages
ConcReturn(c) ==
    /\ conc.call[c].pc = "return"
    /\ LET me == conc.self[conc.inst[c]]
       IN conc' = [conc EXCEPT
                     !.call[c].result = [success |-> TRUE, metadata |-> me.metadata,
                                         messages |-> me.messages, error |-> None],
                     !.call[c].pc = "done"]
    /\ UNCHANGED RestOfConc

NextConc ==
    \E c \in Calls :
        ConcShareId(c) \/ ConcTitle(c) \/ ConcMessages(c) \/ ConcMetadata(c) \/ ConcReturn(c)

SpecConc == InitConc /\ [][NextConc]_vars

(***************************************************************************)
(* SpecLang: the language tag of a code block                              *)
(*                                                                         *)
(* lang.cls and lang.parentCls are the class tokens of the code element    *)
(* and of its parent (sequences of characters), lang.words the text of the *)
(* code element as a sequence of words, lang.pygments whether the pygments *)
(* package can be imported, lang.guess the first alias of the lexer that   *)
(* guess_lexer picks for the content.                                      *)
(***************************************************************************)
LanguageDash == <<"l","a","n","g","u","a","g","e","-">>
LangDash == <<"l","a","n","g","-">>
\* line 683
KnownLanguages ==
    { <<"p","y","t","h","o","n">>, <<"j","a","v","a","s","c","r","i","p","t">>, <<"j","a","v","a">>, <<"c","p","p">>,
      <<"c","s","h","a","r","p">>, <<"g","o">>, <<"r","u","s","t">>, <<"t","y","p","e","s","c","r","i","p","t">> }

\* cls.replace(lit, ''): every occurrence of lit taken out
RECURSIVE RemoveAll(_, _)
RemoveAll(s, lit) ==
    IF s = <<>> THEN <<>>
    ELSE IF IsPrefixAt(lit, s, 1)
         THEN RemoveAll(SubSeq(s, Len(lit) + 1, Len(s)), lit)
         ELSE <<Head(s)>> \o RemoveAll(Tail(s), lit)

\* str.lower and str.upper on the words of the content
LowerWord(w) == IF w = "SELECT" THEN "select" ELSE IF w = "FROM" THEN "from" ELSE w
UpperWord(w) == IF w = "select" THEN "SELECT" ELSE IF w = "from" THEN "FROM"
                ELSE IF w = "python" THEN "PYTHON" ELSE IF w = "function" THEN "FUNCTION"
                ELSE w

\* lines 677-684: the classes of the code element from the k-th on
RECURSIVE OwnClassLanguage(_, _)
OwnClassLanguage(classes, k) ==
    IF k > Len(classes) THEN Unset
    ELSE IF StartsWith(classes[k], LanguageDash) THEN RemoveAll(classes[k], LanguageDash)
    ELSE IF StartsWith(classes[k], LangDash) THEN RemoveAll(classes[k], LangDash)
    ELSE IF classes[k] \in KnownLanguages THEN classes[k]
    ELSE OwnClassLanguage(classes, k + 1)

\* lines 687-692
RECURSIVE ParentClassLanguage(_, _)
ParentClassLanguage(classes, k) ==
    IF k > Len(classes) THEN Unset
    ELSE IF StartsWith(classes[k], LanguageDash) THEN RemoveAll(classes[k], LanguageDash)
    ELSE ParentClassLanguage(classes, k + 1)

\* lines 695-704
SniffLanguage(words) ==
    LET lower == {LowerWord(words[k]) : k \in 1..Len(words)}
        upper == {UpperWord(words[k]) : k \in 1..Len(words)}
        plain == Range(words)
    IN IF lower \cap {"def ", "import ", "python"} # {} THEN <<"p","y","t","h","o","n">>
       ELSE IF lower \cap {"function", "const ", "let ", "=>"} # {} THEN <<"j","a","v","a","s","c","r","i","p","t">>
       ELSE IF "SELECT" \in upper /\ "FROM" \in upper THEN <<"s","q","l">>
       ELSE IF plain \cap {"#include", "std::", "int main"} # {} THEN <<"c","p","p">>
       ELSE <<>>

\* _detect_code_language with the parent's classes looked at first
DetectParentFirst(classes, parentClasses, words) ==
    IF ParentClassLanguage(parentClasses, 1) # Unset
    THEN ParentClassLanguage(parentClasses, 1)
    ELSE IF OwnClassLanguage(classes, 1) # Unset THEN OwnClassLanguage(classes, 1)
    ELSE SniffLanguage(words)

\* _detect_code_language
DetectCodeLanguage(classes, parentClasses, words) ==
    IF OwnClassLanguage(classes, 1) # Unset THEN OwnClassLanguage(classes, 1)
    ELSE IF ParentClassLanguage(parentClasses, 1) # Unset
         THEN ParentClassLanguage(parentClasses, 1)
    ELSE SniffLanguage(words)

\* names get_lexer_by_name finds a lexer for, as far as the classes and the
\* sniffing of this model can produce them
PygmentsNames == { <<"p","y","t","h","o","n">>, <<"j","a","v","a","s","c","r","i","p","t">>, <<"j","s">>, <<"s","q","l">>, <<"c","p","p">> }
\* lines 643-648
LanguageMappings(language) ==
    IF language = <<"j","a","v","a","s","c","r","i","p","t">> THEN <<"j","s">>
    ELSE IF language = <<"t","y","p","e","s","c","r","i","p","t">> THEN <<"t","s">>
    ELSE IF language = <<"s","h","e","l","l">> THEN <<"b","a","s","h">>
    ELSE IF language = <<"y","a","m","l">> THEN <<"y","m","l">>
    ELSE language

\* lines 636-653: whether a lexer is found for the language
LexerFound(language) ==
    /\ language # <<>>
    /\ (language \in PygmentsNames \/ LanguageMappings(language) \in PygmentsNames)

\* _apply_pygments_highlighting: the tag put after the opening fence
FenceTag(language, pygments, guess) ==
    IF ~pygments THEN language
    ELSE IF LexerFound(language) THEN language
    ELSE guess

\* the class tokens of the code elements and of their parents
CodeClasses == { <<"l","a","n","g","u","a","g","e","-","s","q","l">>, <<"l","a","n","g","-","j","s">>, <<"p","y","t","h","o","n">>, <<"h","l","j","s">>, <<"l","a","n","g","u","a","g","e","-","f","o","o">> }
ParentClassSeqs ==
    { <<>>, << <<"c","o","d","e","-","b","l","o","c","k","_","_","c","o","d","e">> >>, << <<"l","a","n","g","u","a","g","e","-","c","p","p">> >>,
      << <<"c","o","d","e","-","b","l","o","c","k","_","_","c","o","d","e">>, <<"l","a","n","g","u","a","g","e","-","c","p","p">> >> }
CodeWords == {"x", "python", "function", "select", "FROM", "#include"}
\* lexer.aliases[0] of the guessed lexer, 'text' when it has none
GuessAliases == { <<"t","e","x","t">>, <<"p","y","t","h","o","n">> }

InitLang ==
    /\ \E cls \in SeqsUpTo(CodeClasses, 2) :
       \E pcls \in ParentClassSeqs :
       \E words \in SeqsUpTo(CodeWords, 2) :
       \E pygments \in BOOLEAN :
       \E guess \in GuessAliases :
          lang = [pc |-> "start", cls |-> cls, parentCls |-> pcls, words |-> words,
                  pygments |-> pygments, guess |-> guess,
                  language |-> Unset, fence |-> Unset]
    /\ IdleButLang

\* line 813: language = self._detect_code_language(code_element)
DetectLanguage ==
    /\ lang.pc = "start"
    /\ lang' = [lang EXCEPT
                  !.language = DetectCodeLanguage(lang.cls, lang.parentCls, lang.words),
                  !.pc = "detected"]
    /\ UNCHANGED RestOfLang

\* line 814: return self._apply_pygments_highlighting(code_content, language)
ApplyHighlighting ==
    /\ lang.pc = "detected"
    /\ lang' = [lang EXCEPT
                  !.fence = FenceTag(lang.language, lang.pygments, lang.guess),
                  !.pc = "done"]
    /\ UNCHANGED RestOfLang

NextLang == DetectLanguage \/ ApplyHighlighting

SpecLang == InitLang /\ [][NextLang]_vars

(***************************************************************************)
(* The code blocks of an answer: _extract_structured_content on the main   *)
(* answer container, called twice by a parser that has parsed before       *)
(***************************************************************************)

MaxCodeLen == 3

CodeChars == {"x", " ", "\n"}
CodeTexts == UNION {[1..n -> CodeChars] : n \in 0..MaxCodeLen}

\* the three backquotes that open and close a fenced block
Fence == "<fence>"
LineBreak == "\n"
CodeBlockClass == "code-block__code"

\* the text a highlighter wraps in a span: a token, or nothing
SpanTexts == {<<>>, <<"x">>}

\* a <code> element, <code><span>span</span>tail</code>; spanned is FALSE
\* when the first text is a plain string and not a span
CodeElems == [spanned : BOOLEAN, span : SpanTexts, tail : CodeTexts]

\* code_elem.get_text()
CodeGetText(code_elem) == code_elem.span \o code_elem.tail

\* span.replace_with(span.get_text()) for every span of the element
ReplaceSpans(code_elem) == [code_elem EXCEPT !.spanned = FALSE]

\* code_text.split('\n')
RECURSIVE SplitLines(_)
SplitLines(s) ==
    LET brk == {i \in 1..Len(s) : s[i] = LineBreak}
    IN IF brk = {} THEN <<s>>
       ELSE <<SubSeq(s, 1, SetMin(brk) - 1)>>
            \o SplitLines(SubSeq(s, SetMin(brk) + 1, Len(s)))

\* line.rstrip()
RStrip(s) ==
    LET keep == {i \in 1..Len(s) : s[i] \notin WhiteSpace}
    IN IF keep = {} THEN <<>> ELSE SubSeq(s, 1, SetMax(keep))

\* lines 608-616: every line right-stripped, the lines joined again
CleanLines(code_text) ==
    LET lines == SplitLines(code_text)
    IN Join([k \in 1..Len(lines) |-> RStrip(lines[k])], LineBreak)

\* the same extraction working on the element itself
ExtractCleanInPlace(code_elem) ==
    [elem |-> ReplaceSpans(code_elem),
     text |-> CleanLines(CodeGetText(ReplaceSpans(code_elem)))]

\* _extract_clean_code_content: the spans are replaced in a copy; elem is
\* the element the caller passed, as it is after the call
ExtractCleanCodeContent(code_elem) ==
    LET elem_copy == ReplaceSpans(code_elem)
    IN [elem |-> code_elem, text |-> CleanLines(CodeGetText(elem_copy))]

\* _format_html_element for a <pre>, lines 808-817; tag is what
\* _apply_pygments_highlighting puts after the opening fence
FormatPre(pre, tag) ==
    IF pre.code
    THEN LET r == ExtractCleanCodeContent(pre.elem)
         IN [pre |-> [pre EXCEPT !.elem = r.elem],
             out |-> <<Fence>> \o tag \o <<LineBreak>> \o r.text \o <<LineBreak, Fence>>]
    ELSE [pre |-> pre,
          out |-> <<Fence, LineBreak>> \o CodeGetText(pre.elem) \o <<LineBreak, Fence>>]

\* _format_html_element for a <div>, lines 843-851: the first
\* pre.code-block__code below it is formatted, and without one the text of
\* the div is flattened
FormatCodeDiv(div, tag) ==
    LET hits == {k \in 1..Len(div.pres) : CodeBlockClass \in div.pres[k].cls}
    IN IF hits # {}
       THEN LET k == SetMin(hits)
                r == FormatPre(div.pres[k], tag)
            IN [el |-> [div EXCEPT !.pres[k] = r.pre], out |-> r.out]
       ELSE [el |-> div,
             out |-> Strip(Flatten([k \in 1..Len(div.pres) |->
                                       CodeGetText(div.pres[k].elem)]))]

\* _format_html_element on a child of the container
FormatHtmlElement(el, tag) ==
    IF el.name = "pre"
    THEN LET r == FormatPre(el.pres[1], tag)
         IN [el |-> [el EXCEPT !.pres[1] = r.pre], out |-> r.out]
    ELSE FormatCodeDiv(el, tag)

\* _extract_structured_content on the children of the container: the
\* children as they are after the call, and the text returned
ExtractStructuredBlocks(children, tag) ==
    LET done == [k \in 1..Len(children) |-> FormatHtmlElement(children[k], tag)]
        outs == [k \in 1..Len(children) |-> done[k].out]
        Kept(o) == o # <<>> /\ Strip(o) # <<>>
        kept == SelectSeq(outs, Kept)
    IN [children |-> [k \in 1..Len(children) |-> done[k].el],
        out |-> Join([k \in 1..Len(kept) |-> Strip(kept[k])], BlankLine)]

\* parse_html line 45: self.messages = self._extract_messages(soup)
StoreMessages(self, found) == [self EXCEPT !.messages = found]

Pre(cls, code, elem) == [cls |-> cls, code |-> code, elem |-> elem]
PreElement(pre) == [name |-> "pre", pres |-> <<pre>>]
DivElement(pres) == [name |-> "div", pres |-> pres]

PreClasses == {{}, {CodeBlockClass}}
FenceTags == {<<>>, <<"python">>}
\* self.messages before the call: [] from __init__, or the turns of the
\* document parsed before
EarlierMessages == {<<>>, << <<"earlier">> >>}

\* the children of the container: one or two code blocks, each a <pre> of
\* its own or inside a <div>, and a <pre> without a <code>
CodeContainers(e1, e2) ==
    {<<PreElement(Pre(c, TRUE, e1))>> : c \in PreClasses}
    \cup {<<PreElement(Pre(c, FALSE, e1))>> : c \in PreClasses}
    \cup {<<DivElement(<<Pre(c, TRUE, e1)>>)>> : c \in PreClasses}
    \cup {<<DivElement(<<Pre(c1, TRUE, e1), Pre(c2, TRUE, e2)>>)>> :
             c1 \in PreClasses, c2 \in PreClasses}
    \cup {<<PreElement(Pre(c1, TRUE, e1)), DivElement(<<Pre(c2, TRUE, e2)>>)>> :
             c1 \in PreClasses, c2 \in PreClasses}

InitCode ==
    /\ \E e1 \in CodeElems :
       \E t2 \in SpanTexts :
       \E tag \in FenceTags :
       \E earlier \in EarlierMessages :
       \E children \in CodeContainers(e1, [spanned |-> FALSE, span |-> t2, tail |-> <<>>]) :
          fenced = [pc |-> "start", children0 |-> children, children |-> children,
                  tag |-> tag, earlier |-> earlier,
                  self |-> [messages |-> earlier],
                  first |-> Unset, second |-> Unset]
    /\ IdleButFenced

\* the first parse_html of the document by this parser
CodeParse ==
    /\ fenced.pc = "start"
    /\ LET r == ExtractStructuredBlocks(fenced.children, fenced.tag)
           self == StoreMessages(fenced.self, <<r.out>>)
       IN fenced' = [fenced EXCEPT !.children = r.children, !.self = self,
                               !.first = self.messages, !.pc = "once"]
    /\ UNCHANGED RestOfFenced

\* the same document parsed again by the same parser
CodeParseAgain ==
    /\ fenced.pc = "once"
    /\ LET r == ExtractStructuredBlocks(fenced.children, fenced.tag)
           self == StoreMessages(fenced.self, <<r.out>>)
       IN fenced' = [fenced EXCEPT !.children = r.children, !.self = self,
                               !.second = self.messages, !.pc = "done"]
    /\ UNCHANGED RestOfFenced

NextCode == CodeParse \/ CodeParseAgain

SpecCode == InitCode /\ [][NextCode]_vars

(***************************************************************************)
(* SpecRole: ConversationParser._determine_message_role(element, index)    *)
(***************************************************************************)

MaxIndex == 3

\* str.lower() on the pieces of a class string or of a text
LowerPiece(w) ==
    IF w = "User-Message" THEN "user-message"
    ELSE IF w = "Claude-Message" THEN "claude-message"
    ELSE IF w = "Human:" THEN "human:"
    ELSE IF w = "USER:" THEN "user:"
    ELSE IF w = "Claude:" THEN "claude:"
    ELSE IF w = "AI:" THEN "ai:"
    ELSE w

HumanClassPatterns == {"user-message", "human-message"}
ClaudeClassPatterns == {"claude-message", "assistant-message"}
HumanPrefixes == {"human:", "user:", "me:"}
ClaudePrefixes == {"claude:", "assistant:", "ai:"}

\* lines 411-416: pattern in ' '.join(classes).lower(); a class is a
\* sequence of pieces, and a pattern is one piece
ClassStrHas(classes, patterns) ==
    \E k \in 1..Len(classes) : \E i \in 1..Len(classes[k]) :
        LowerPiece(classes[k][i]) \in patterns

\* lines 419-423: text.lower().startswith(prefixes)
TextStartsWith(text, prefixes) ==
    text # <<>> /\ LowerPiece(Head(text)) \in prefixes

\* the heuristics in the order marker, streaming state, class, text, parity
RoleInFiveSteps(el, index) ==
    IF el.marker THEN "human"
    ELSE IF el.stream THEN "assistant"
    ELSE IF ClassStrHas(el.classes, HumanClassPatterns) THEN "human"
    ELSE IF ClassStrHas(el.classes, ClaudeClassPatterns) THEN "assistant"
    ELSE IF TextStartsWith(el.text, HumanPrefixes) THEN "human"
    ELSE IF TextStartsWith(el.text, ClaudePrefixes) THEN "assistant"
    ELSE IF index % 2 = 0 THEN "human" ELSE "assistant"

\* _determine_message_role, lines 389-427
RoleOfElement(el, index) ==
    IF el.marker THEN "human"
    ELSE IF el.avatar THEN "human"
    ELSE IF el.response THEN "assistant"
    ELSE IF el.stream THEN "assistant"
    ELSE IF ClassStrHas(el.classes, HumanClassPatterns) THEN "human"
    ELSE IF ClassStrHas(el.classes, ClaudeClassPatterns) THEN "assistant"
    ELSE IF TextStartsWith(el.text, HumanPrefixes) THEN "human"
    ELSE IF TextStartsWith(el.text, ClaudePrefixes) THEN "assistant"
    ELSE IF index % 2 = 0 THEN "human" ELSE "assistant"

\* element.get('class', []) and element.get_text() of the elements tried
RoleClasses ==
    { <<>>, << <<"flex">> >>, << <<"User-Message">> >>, << <<"x-", "human-message">> >>,
      << <<"Claude-Message">> >>, << <<"assistant-message">>, <<"user-message">> >> }
RoleTexts ==
    { <<>>, <<"a">>, <<"Human:", "a">>, <<"USER:">>, <<"me:", "a">>, <<" ", "Human:">>,
      <<"Claude:", "a">>, <<"assistant:">>, <<"AI:", "a">> }

InitRole ==
    /\ \E marker \in BOOLEAN : \E avatar \in BOOLEAN :
       \E response \in BOOLEAN : \E stream \in BOOLEAN :
       \E classes \in RoleClasses : \E text \in RoleTexts :
       \E index \in 0..MaxIndex :
          verdict = [pc |-> "start",
                     el |-> [marker |-> marker, avatar |-> avatar, response |-> response,
                             stream |-> stream, classes |-> classes, text |-> text],
                     index |-> index, role |-> "unset"]
    /\ IdleButVerdict

\* line 375: role = self._determine_message_role(element, index)
DetermineRole ==
    /\ verdict.pc = "start"
    /\ verdict' = [verdict EXCEPT !.role = RoleOfElement(verdict.el, verdict.index),
                                  !.pc = "done"]
    /\ UNCHANGED RestOfVerdict

NextRole == DetermineRole

SpecRole == InitRole /\ [][NextRole]_vars

(***************************************************************************)
(* SpecClimb: the search of _find_message_turns for the styled container   *)
(* above one user-message element                                          *)
(***************************************************************************)

MaxAncestors == 12

RoundedXl == "rounded-xl"
BgBg300 == "bg-bg-300"

\* 'rounded-xl' in ' '.join(classes) and 'bg-bg-300' in ' '.join(classes):
\* a class is a sequence of pieces, and each of the two names is one piece
HasRoundedStyling(classes) ==
    /\ \E k \in 1..Len(classes) : \E i \in 1..Len(classes[k]) : classes[k][i] = RoundedXl
    /\ \E k \in 1..Len(classes) : \E i \in 1..Len(classes[k]) : classes[k][i] = BgBg300

\* the loop of lines 151-159 without the limit of 10 levels
ClimbWithoutLimit(up, k, left) ==
    LET hits == {j \in k..Len(up) : HasRoundedStyling(up[j])}
    IN IF hits = {} THEN 0 ELSE SetMin(hits)

\* lines 150-159: up[k] is the k-th ancestor of the user-message element;
\* from the k-th ancestor on, at most left levels are tried, and the result
\* is the level of the first ancestor with the rounded styling, 0 for none
RECURSIVE ClimbToStyled(_, _, _)
ClimbToStyled(up, k, left) ==
    IF left = 0 \/ k > Len(up) THEN 0
    ELSE IF HasRoundedStyling(up[k]) THEN k
    ELSE ClimbToStyled(up, k + 1, left - 1)

\* the classes an ancestor may carry
PlainClasses == << <<"flex">> >>
WrapperClasses ==
    { << <<RoundedXl>>, <<BgBg300>> >>,
      << <<RoundedXl>> >>,
      << <<BgBg300>>, <<"flex">> >>,
      << <<"md:", RoundedXl>>, <<"hover:", BgBg300>> >> }

InitClimb ==
    /\ \E n \in 0..MaxAncestors :
       \E p \in 0..n : \E q \in 0..n :
       \E cp \in WrapperClasses : \E cq \in WrapperClasses :
          /\ (p = 0 \/ q = 0 \/ p < q)
          /\ climb = [pc |-> "start",
                      up |-> [j \in 1..n |-> IF j = p THEN cp
                                             ELSE IF j = q THEN cq
                                             ELSE PlainClasses],
                      found |-> 0, user_containers |-> <<>>]
    /\ IdleButClimb

\* one round of the loop of line 148
ClimbStep ==
    /\ climb.pc = "start"
    /\ LET found == ClimbToStyled(climb.up, 1, LookUpLevels)
       IN climb' = [climb EXCEPT
                      !.found = found,
                      !.user_containers = IF found = 0 THEN <<>> ELSE <<found>>,
                      !.pc = "done"]
    /\ UNCHANGED RestOfClimb

NextClimb == ClimbStep

SpecClimb == InitClimb /\ [][NextClimb]_vars

(***************************************************************************)
(* SpecCache: CacheManager over a sequence of create_conversation_entry,   *)
(* save_raw_html, save_metadata, save_markdown, cleanup_empty_directories  *)
(***************************************************************************)

MaxCalls == 4
ShortIdLen == 8
DirTitleLength == 30

\* the characters removed by re.sub(r'[<>:"/\\|?*]', '', text); the titles
\* of the model hold no quote and no backslash
UnsafeChars == {"<", ">", ":", "/", "|", "?", "*"}

\* re.sub(pattern, '-', text) for a pattern matching runs of the characters
\* of run
RECURSIVE HyphenForRuns(_, _)
HyphenForRuns(s, run) ==
    IF s = <<>> THEN <<>>
    ELSE IF Head(s) \in run
         THEN IF Len(s) > 1 /\ s[2] \in run
              THEN HyphenForRuns(Tail(s), run)
              ELSE <<"-">> \o HyphenForRuns(Tail(s), run)
         ELSE <<Head(s)>> \o HyphenForRuns(Tail(s), run)

\* text.strip('-') and text.rstrip('-')
StripHyphens(s) ==
    LET keep == {i \in 1..Len(s) : s[i] # "-"}
    IN IF keep = {} THEN <<>> ELSE SubSeq(s, SetMin(keep), SetMax(keep))
RStripHyphens(s) ==
    LET keep == {i \in 1..Len(s) : s[i] # "-"}
    IN IF keep = {} THEN <<>> ELSE SubSeq(s, 1, SetMax(keep))

\* sanitize_filename(text, max_length)
SanitizeFilename(text, max_length) ==
    LET Safe(c)  == c \notin UnsafeChars
        Plain(c) == c \in Letters \cup Digits \cup {"-", "_"}
        t1 == SelectSeq(text, Safe)
        t2 == HyphenForRuns(Strip(t1), WhiteSpace)
        t3 == SelectSeq(t2, Plain)
        t4 == StripHyphens(HyphenForRuns(t3, {"-"}))
        t5 == IF Len(t4) > max_length THEN RStripHyphens(SubSeq(t4, 1, max_length)) ELSE t4
    IN IF t5 = <<>> THEN <<"untitled">> ELSE t5

\* generate_cache_dir_name: date_str, sanitized title and short id joined by
\* underscores
GenerateCacheDirName(dir_title, sid, date) ==
    LET short_id == IF sid = <<>> THEN <<"unknown">>
                    ELSE SubSeq(sid, 1, IF Len(sid) < ShortIdLen THEN Len(sid) ELSE ShortIdLen)
    IN date \o <<"_">> \o SanitizeFilename(dir_title, DirTitleLength) \o <<"_">> \o short_id

\* the share ids, titles and days of the model
ShareIdTexts ==
    { <<"a","b","c","d","e","f","0","1","-","2">>,
      <<"a","b","c","d","e","f","0","1","-","3">>,
      <<"b","4">> }
CacheTitles == { <<"x">>, <<"/"," ","x"," "," ","y","?">> }
CacheDates == { <<"2026-01-01">>, <<"2026-01-02">> }
DirNames ==
    {GenerateCacheDirName(t, sid, date) : t \in CacheTitles, sid \in ShareIdTexts, date \in CacheDates}

\* the keys of an entry's 'files' map and the file each one stands for
FileKeys == {"raw_html", "metadata", "markdown"}
FileNameOf(key) ==
    IF key = "raw_html" THEN "raw.html"
    ELSE IF key = "metadata" THEN "metadata.json"
    ELSE "conversation.md"

\* a share id without an entry, a directory that does not exist
NoEntry == [directory |-> <<>>, files |-> {}]
NoDirectory == {"<missing>"}

\* conversation_exists
ConversationExists(c, sid) == c.index[sid] # NoEntry

\* create_conversation_entry: mkdir(exist_ok=True) keeps what the directory
\* holds, the entry is replaced by one with an empty 'files' map
CreateConversationEntry(c, sid, dir_title, date) ==
    LET dir_name == GenerateCacheDirName(dir_title, sid, date)
    IN [c EXCEPT !.disk[dir_name] = IF @ = NoDirectory THEN {} ELSE @,
                 !.index[sid] = [directory |-> dir_name, files |-> {}]]

\* save_raw_html, save_metadata, save_markdown: the file is written, then
\* the 'files' map gets its key; a ValueError without an entry, an OSError
\* when the file cannot be opened, both leaving everything as it was
SaveFile(c, sid, key, ok) ==
    IF ~ConversationExists(c, sid) THEN c
    ELSE LET dir_name == c.index[sid].directory
         IN IF c.disk[dir_name] = NoDirectory \/ ~ok THEN c
            ELSE [c EXCEPT !.disk[dir_name] = @ \cup {FileNameOf(key)},
                           !.index[sid].files = @ \cup {key}]

\* cleanup_empty_directories: the entries whose directory is missing or
\* empty are removed, and their directories with them
CleanupEmptyDirectories(c) ==
    LET stale == {sid \in ShareIdTexts :
                     /\ ConversationExists(c, sid)
                     /\ c.disk[c.index[sid].directory] \in {NoDirectory, {}}}
        gone  == {c.index[sid].directory : sid \in stale}
    IN [c EXCEPT !.index = [sid \in ShareIdTexts |-> IF sid \in stale THEN NoEntry ELSE @[sid]],
                 !.disk = [d \in DirNames |-> IF d \in gone THEN NoDirectory ELSE @[d]]]

EmptyCache == [index |-> [sid \in ShareIdTexts |-> NoEntry],
               disk |-> [d \in DirNames |-> NoDirectory]]

InitCache ==
    /\ store = [pc |-> "run", calls |-> 0, cache |-> EmptyCache]
    /\ IdleButStore

CacheCreate ==
    /\ store.pc = "run" /\ store.calls < MaxCalls
    /\ \E sid \in ShareIdTexts : \E t \in CacheTitles : \E date \in CacheDates :
          store' = [store EXCEPT !.cache = CreateConversationEntry(@, sid, t, date),
                                 !.calls = @ + 1]
    /\ UNCHANGED RestOfStore

CacheSaveRawHtml ==
    /\ store.pc = "run" /\ store.calls < MaxCalls
    /\ \E sid \in ShareIdTexts : \E ok \in BOOLEAN :
          store' = [store EXCEPT !.cache = SaveFile(@, sid, "raw_html", ok),
                                 !.calls = @ + 1]
    /\ UNCHANGED RestOfStore

CacheSaveMetadata ==
    /\ store.pc = "run" /\ store.calls < MaxCalls
    /\ \E sid \in ShareIdTexts : \E ok \in BOOLEAN :
          store' = [store EXCEPT !.cache = SaveFile(@, sid, "metadata", ok),
                                 !.calls = @ + 1]
    /\ UNCHANGED RestOfStore

CacheSaveMarkdown ==
    /\ store.pc = "run" /\ store.calls < MaxCalls
    /\ \E sid \in ShareIdTexts : \E ok \in BOOLEAN :
          store' = [store EXCEPT !.cache = SaveFile(@, sid, "markdown", ok),
                                 !.calls = @ + 1]
    /\ UNCHANGED RestOfStore

CacheCleanup ==
    /\ store.pc = "run" /\ store.calls < MaxCalls
    /\ store' = [store EXCEPT !.cache = CleanupEmptyDirectories(@), !.calls = @ + 1]
    /\ UNCHANGED RestOfStore

NextCache ==
    CacheCreate \/ CacheSaveRawHtml \/ CacheSaveMetadata \/ CacheSaveMarkdown \/ CacheCleanup

SpecCache == InitCache /\ [][NextCache]_vars

(***************************************************************************)
(* SpecScrape: the scrape command of main.py                               *)
(***************************************************************************)

ScrapeUrls == { CanonicalPrefix \o <<"a","b","c","d","e","f","0","1","-","2">>, <<"x">> }

\* the cache as an earlier scrape of the first URL left it
CachedBefore ==
    LET sid == <<"a","b","c","d","e","f","0","1","-","2">>
        c1  == CreateConversationEntry(EmptyCache, sid, <<"x">>, <<"2026-01-01">>)
        c2  == SaveFile(c1, sid, "raw_html", TRUE)
        c3  == SaveFile(c2, sid, "metadata", TRUE)
    IN SaveFile(c3, sid, "markdown", TRUE)

InitScrape ==
    /\ \E u \in ScrapeUrls : \E rateOk \in BOOLEAN :
       \E force \in BOOLEAN : \E no_markdown \in BOOLEAN :
       \E c \in {EmptyCache, CachedBefore} :
       \E fetched \in {"ok", "failed", "raised"} : \E parsed \in {"ok", "failed"} :
       \E t \in CacheTitles : \E date \in CacheDates :
          scrape = [pc |-> "start", url |-> u, rateOk |-> rateOk, force |-> force,
                    no_markdown |-> no_markdown, cache0 |-> c, cache |-> c,
                    fetchGives |-> fetched, parseGives |-> parsed,
                    title |-> t, today |-> date,
                    share_id |-> None, fetches |-> 0]
    /\ IdleButScrape

\* lines 48-51
ScrapeValidate ==
    /\ scrape.pc = "start"
    /\ scrape' = [scrape EXCEPT !.pc = IF IsValidClaudeShareUrl(scrape.url)
                                       THEN "rate" ELSE "exit"]
    /\ UNCHANGED RestOfScrape

\* lines 53-61
ScrapeRateLimit ==
    /\ scrape.pc = "rate"
    /\ scrape' = IF scrape.rateOk
                 THEN [scrape EXCEPT !.share_id = ExtractShareId(scrape.url), !.pc = "check"]
                 ELSE [scrape EXCEPT !.pc = "exit"]
    /\ UNCHANGED RestOfScrape

\* lines 63-71
ScrapeCheckCached ==
    /\ scrape.pc = "check"
    /\ scrape' = [scrape EXCEPT
                    !.pc = IF ~scrape.force /\ ConversationExists(scrape.cache, scrape.share_id)
                           THEN "returned" ELSE "fetch"]
    /\ UNCHANGED RestOfScrape

\* lines 83-97: fetch_conversation_advanced returns a result or raises
ScrapeFetch ==
    /\ scrape.pc = "fetch"
    /\ scrape' = [scrape EXCEPT
                    !.fetches = @ + 1,
                    !.pc = IF scrape.fetchGives = "ok" THEN "parse"
                           ELSE IF scrape.fetchGives = "failed" THEN "exit"
                           ELSE "raised"]
    /\ UNCHANGED RestOfScrape

\* the parse step without the test of lines 105-108
ScrapeParseThenSave ==
    /\ scrape.pc = "parse"
    /\ scrape' = [scrape EXCEPT !.pc = "create"]
    /\ UNCHANGED RestOfScrape

\* lines 101-108
ScrapeParse ==
    /\ scrape.pc = "parse"
    /\ scrape' = [scrape EXCEPT !.pc = IF scrape.parseGives = "ok" THEN "create" ELSE "exit"]
    /\ UNCHANGED RestOfScrape

\* lines 112-127; the date of the metadata is None, so the day is today
ScrapeCreateEntry ==
    /\ scrape.pc = "create"
    /\ scrape' = [scrape EXCEPT
                    !.cache = CreateConversationEntry(@, scrape.share_id, scrape.title,
                                                      scrape.today),
                    !.pc = "save_html"]
    /\ UNCHANGED RestOfScrape

\* line 130; an OSError or an interruption ends the command
ScrapeSaveHtml ==
    /\ scrape.pc = "save_html"
    /\ \E ok \in BOOLEAN :
          scrape' = [scrape EXCEPT
                       !.cache = SaveFile(@, scrape.share_id, "raw_html", ok),
                       !.pc = IF ok THEN "save_metadata" ELSE "raised"]
    /\ UNCHANGED RestOfScrape

\* line 133
ScrapeSaveMetadata ==
    /\ scrape.pc = "save_metadata"
    /\ \E ok \in BOOLEAN :
          scrape' = [scrape EXCEPT
                       !.cache = SaveFile(@, scrape.share_id, "metadata", ok),
                       !.pc = IF ok THEN "save_markdown" ELSE "raised"]
    /\ UNCHANGED RestOfScrape

\* lines 136-139
ScrapeSaveMarkdown ==
    /\ scrape.pc = "save_markdown"
    /\ \E ok \in BOOLEAN :
          scrape' = IF scrape.no_markdown THEN [scrape EXCEPT !.pc = "done"]
                    ELSE [scrape EXCEPT
                            !.cache = SaveFile(@, scrape.share_id, "markdown", ok),
                            !.pc = IF ok THEN "done" ELSE "raised"]
    /\ UNCHANGED RestOfScrape

NextScrape ==
    \/ ScrapeValidate \/ ScrapeRateLimit \/ ScrapeCheckCached \/ ScrapeFetch
    \/ ScrapeParse \/ ScrapeCreateEntry \/ ScrapeSaveHtml \/ ScrapeSaveMetadata
    \/ ScrapeSaveMarkdown

SpecScrape == InitScrape /\ [][NextScrape]_vars

(***************************************************************************)
(* SpecBatch: the loop of the batch command of main.py                     *)
(***************************************************************************)

MaxUrls == 3

\* what processing one valid URL gives: whether its share id is in the
\* cache, and how fetch, parse and the cache calls end.  "save_raised" is an
\* exception out of lines 253-264: create_conversation_entry cannot make
\* the directory, or a save_* call cannot write its file.
UrlOutcomes ==
    [cached : BOOLEAN, gives : {"fetch_failed", "parse_failed", "save_raised", "saved"}]

InitBatch ==
    /\ \E n \in 1..MaxUrls : \E outcomes \in [1..n -> UrlOutcomes] :
       \E force \in BOOLEAN : \E continue_on_error \in BOOLEAN :
          batch = [pc |-> "loop", outcomes |-> outcomes, force |-> force,
                   continue_on_error |-> continue_on_error,
                   i |-> 1, entered |-> 0,
                   success_count |-> 0, error_count |-> 0, report |-> <<>>]
    /\ IdleButBatch

\* lines 212-275: one URL of valid_urls
BatchUrl ==
    /\ batch.pc = "loop"
    /\ batch.i <= Len(batch.outcomes)
    /\ LET o == batch.outcomes[batch.i]
           b == [batch EXCEPT !.entered = @ + 1]
       IN batch' =
             IF ~batch.force /\ o.cached
             THEN [b EXCEPT !.success_count = @ + 1, !.i = @ + 1]
             ELSE IF o.gives = "saved"
             THEN [b EXCEPT !.success_count = @ + 1, !.i = @ + 1]
             ELSE IF ~batch.continue_on_error
             THEN [b EXCEPT !.pc = "report"]
             ELSE [b EXCEPT !.error_count = @ + 1, !.i = @ + 1]
    /\ UNCHANGED RestOfBatch

\* the loop is over
BatchLoopEnds ==
    /\ batch.pc = "loop"
    /\ batch.i > Len(batch.outcomes)
    /\ batch' = [batch EXCEPT !.pc = "report"]
    /\ UNCHANGED RestOfBatch

\* line 279
BatchReport ==
    /\ batch.pc = "report"
    /\ batch' = [batch EXCEPT !.report = <<batch.success_count, batch.error_count>>,
                              !.pc = "done"]
    /\ UNCHANGED RestOfBatch

NextBatch == BatchUrl \/ BatchLoopEnds \/ BatchReport

SpecBatch == InitBatch /\ [][NextBatch]_vars

(***************************************************************************)
(* Claims about parse_html (checked under Spec)                            *)
(***************************************************************************)
Returned == pc = "done"

\* the containers _find_message_turns locates, in the order it returns them
LocatedContainers(d) == FindMessageTurns(d, ConversationContainer(d))

\* a text with something in it besides white space
HasVisibleText(s) == \E j \in 1..Len(s) : s[j] \notin WhiteSpace

\* the located containers whose rendered content is empty or white space only
DiscardedContainers(d) ==
    {k \in 1..Len(LocatedContainers(d)) :
        ~HasVisibleText(ExtractMessageContent(TurnOf(d, LocatedContainers(d)[k])))}

\* C1: in a successful result with at least one message, the index fields
\* of the messages are 0, 1, ..., len(messages)-1 in list order, also when
\* located containers were discarded for having empty content.
C1_IndexesHaveNoGaps ==
    (Returned /\ result.success /\ Len(result.messages) >= 1) =>
        \A k \in 1..Len(result.messages) : result.messages[k].index = k - 1

\* C2: the turns are in document order: when container A precedes container
\* B in the depth-first left-to-right traversal (elements are numbered in
\* that order), A's turn comes before B's turn in the message list.
C2_TurnsInDocumentOrder ==
    (Returned /\ result.success) =>
        \A i, j \in 1..Len(result.messages) :
            result.messages[i].node < result.messages[j].node => i < j

\* a document of N top-level text blocks labelled Human:, Claude:, Human:, ...
AlternatingLabelled(d) ==
    /\ d.n >= 1
    /\ \A i \in 1..d.n :
          /\ d.kind[i] = "plain"
          /\ d.parent[i] = 0
          /\ d.txt[i] # <<>>
          /\ Head(d.txt[i]) = (IF i % 2 = 1 THEN "Human:" ELSE "Claude:")

\* C3: when the structural heuristics locate no container, extraction falls
\* back to the alternating-content scan: a document of N alternating
\* 'Human:' / 'Claude:' blocks gives exactly N turns with roles human,
\* assistant, human, ... in document order.
C3_AlternatingFallback ==
    ( /\ Returned /\ fault = "none"
      /\ AlternatingLabelled(doc)
      /\ LocatedContainers(doc) = <<>> ) =>
        /\ result.success
        /\ Len(result.messages) = doc.n
        /\ \A k \in 1..Len(result.messages) :
              result.messages[k].role = (IF k % 2 = 1 THEN "human" ELSE "assistant")

\* C4: parse_html never raises to its caller: a fault in any step ends in a
\* returned result with success false, empty metadata, no messages and an
\* error message; a return without a fault has success true and error None.
C4_NeverRaises ==
    /\ pc \in {"start", "title", "messages", "build", "done"}
    /\ fault # "none" => Returned
    /\ Returned =>
          /\ result.success <=> fault = "none"
          /\ ~result.success =>
                /\ DOMAIN result.metadata = {}
                /\ result.messages = <<>>
                /\ result.error # None
                /\ Len(result.error) = 2
          /\ result.success => result.error = None

\* C4 witness: a fault while the title or the messages were extracted came
\* back as a failure result
C4_FaultReturned ==
    Returned /\ fault = "RecursionError" /\ ~result.success /\ doc.n >= 1

\* C5: the empty document, and any document from which no non-empty turn is
\* extracted, comes back with success false, not as a success with an empty
\* message list.
C5_EmptyExtractionFails ==
    ( /\ Returned
      /\ \/ doc.n = 0
         \/ Len(LocatedContainers(doc)) = Cardinality(DiscardedContainers(doc)) )
    => ~result.success

\* C6: every message of a result has content with something in it besides
\* white space, and a located container whose rendered content is empty or
\* white space only gives no message: the messages are as many as the
\* located containers that were not discarded.
C6_NoBlankMessages ==
    (Returned /\ result.success) =>
        /\ \A k \in 1..Len(result.messages) : HasVisibleText(result.messages[k].content)
        /\ Len(result.messages)
              = Len(LocatedContainers(doc)) - Cardinality(DiscardedContainers(doc))

\* C6 witness: a result with a message, from a document in which a located
\* container was discarded
C6_BlankContainerDropped ==
    /\ Returned /\ result.success
    /\ Len(result.messages) >= 1
    /\ DiscardedContainers(doc) # {}

\* the number of parts before the first message (no date line)
DetailLen == Len(DetailParts(result))

\* C15: for a successful result generate_markdown emits the title heading,
\* the details section, then for every message in order one role header
\* ('# Human' for role human, '# Claude' otherwise), a blank line, the
\* content of that message and a blank line; the '**Messages**' count is
\* metadata.message_count and the number of messages.
C15_MarkdownLayout ==
    (markdown.pc = "done" /\ result.success) =>
        LET parts == markdown.parts
            n     == Len(result.messages)
        IN /\ parts[1] = <<"# ">> \o result.metadata.title
           /\ parts[2] = <<>>
           /\ parts[3] = <<"## Conversation Details">>
           /\ \E k \in 4..DetailLen :
                 parts[k] = <<"- **Messages**: ", result.metadata.message_count>>
           /\ result.metadata.message_count = n
           /\ parts[DetailLen - 1] = <<"## Conversation">>
           /\ Len(parts) = DetailLen + 4 * n
           /\ \A k \in 1..n :
                 LET at == DetailLen + 4 * (k - 1)
                 IN /\ parts[at + 1] = (IF result.messages[k].role = "human"
                                        THEN <<"# Human">> ELSE <<"# Claude">>)
                    /\ parts[at + 2] = <<>>
                    /\ parts[at + 3] = result.messages[k].content
                    /\ parts[at + 4] = <<>>

\* C15 witness: the markdown of a result with a human and an assistant message
C15_TwoRolesRendered ==
    /\ markdown.pc = "done" /\ result.success
    /\ Len(result.messages) >= 2
    /\ \E k \in 1..Len(result.messages) : result.messages[k].role = "human"
    /\ \E k \in 1..Len(result.messages) : result.messages[k].role = "assistant"

\* the turn containers have been located (line 132 has run)
TurnsLocated == pc \in {"build", "done"} /\ fault = "none"

\* C19: classification is a partition: no element of the conversation root
\* is collected both as a user-turn container (styled ancestor of a
\* user-message marker) and as an assistant-turn container (div with
\* data-is-streaming="false") in the same extraction.
C19_ClassificationIsPartition ==
    TurnsLocated =>
        Range(UserContainers(doc, ConversationContainer(doc)))
            \cap Range(ClaudeContainers(doc, ConversationContainer(doc))) = {}

\* C20: no element appears more than once in the list _find_message_turns
\* returns, also when several user-message markers share a styled ancestor.
C20_ContainersDeduplicated ==
    TurnsLocated =>
        \A i, j \in 1..Len(LocatedContainers(doc)) :
            LocatedContainers(doc)[i] = LocatedContainers(doc)[j] => i = j

\* the list all_containers of _find_message_turns (lines 166-176): every
\* container with the label it was collected under, sorted by position with
\* the stable sort
DiscoveredContainers(d) ==
    LET c == ConversationContainer(d)
        u == UserContainers(d, c)
        a == ClaudeContainers(d, c)
    IN [k \in 1..Len(u) |-> [label |-> "user", el |-> u[k]]]
       \o [k \in 1..Len(a) |-> [label |-> "claude", el |-> a[k]]]

RECURSIVE InsertLabelled(_, _, _)
InsertLabelled(d, sorted, x) ==
    IF sorted = <<>> THEN <<x>>
    ELSE IF GetSimplePosition(d, x.el) < GetSimplePosition(d, Head(sorted).el)
         THEN <<x>> \o sorted
         ELSE <<Head(sorted)>> \o InsertLabelled(d, Tail(sorted), x)

RECURSIVE SortLabelled(_, _)
SortLabelled(d, s) ==
    IF s = <<>> THEN <<>>
    ELSE InsertLabelled(d, SortLabelled(d, SubSeq(s, 1, Len(s) - 1)), s[Len(s)])

\* C21: the role of every emitted turn is the role its container was
\* discovered under: human for a container found through the user-message
\* marker, assistant for one found through data-is-streaming="false",
\* whatever the container holds.
C21_RoleIsDiscoveryRole ==
    (Returned /\ fault = "none") =>
        LET found == SortLabelled(doc, DiscoveredContainers(doc))
        IN \A k \in 1..Len(result.messages) :
              LET m == result.messages[k]
                  c == found[m.index + 1]
              IN /\ c.el = m.node
                 /\ m.role = (IF c.label = "user" THEN "human" ELSE "assistant")

\* two elements in different branches: neither is the other nor an ancestor
\* of the other
DifferentBranches(d, x, y) ==
    /\ x # y
    /\ x \notin Ancestors(d, y)
    /\ y \notin Ancestors(d, x)

\* C23: an ancestor-level difference dominates the rank: of two containers
\* in different branches the one in the later branch has the strictly
\* greater rank, whatever their depths and sibling counts.
C23_LaterBranchRanksHigher ==
    TurnsLocated =>
        \A x, y \in Range(LocatedContainers(doc)) :
            (x < y /\ DifferentBranches(doc, x, y)) =>
                GetSimplePosition(doc, x) < GetSimplePosition(doc, y)

(***************************************************************************)
(* Claims about the cache (checked under SpecCleanup)                      *)
(***************************************************************************)
\* the entries whose directory was missing or had no file when the call began
StaleEntries ==
    {sid \in CacheShareIds :
        /\ cleanup.index0[sid] # Absent
        /\ cleanup.fs0[cleanup.index0[sid]] \in {"missing", "empty"}}

C16_MethodsInOrderFirstSuccess ==
    fetchAdv.pc # "idle" =>
        /\ fetchAdv.pc \in {"loop", "done"}
        /\ Len(fetchAdv.calls) <= 4
        /\ fetchAdv.calls = SubSeq(Methods, 1, Len(fetchAdv.calls))
        /\ Methods[1] = "SeleniumBase UC Mode" /\ Methods[4] = "Cloudscraper"
        /\ \A k \in 1..(Len(fetchAdv.outcomes) - 1) : fetchAdv.outcomes[k] # "success"
        /\ fetchAdv.pc = "loop" =>
              \A k \in 1..Len(fetchAdv.outcomes) : fetchAdv.outcomes[k] # "success"
        /\ fetchAdv.pc = "done" =>
              /\ fetchAdv.result.success
                    <=> fetchAdv.outcomes[Len(fetchAdv.outcomes)] = "success"
              /\ fetchAdv.result.success
                    => fetchAdv.result.by = fetchAdv.calls[Len(fetchAdv.calls)]
              /\ fetchAdv.result = AllMethodsFailed
                    <=> /\ Len(fetchAdv.outcomes) = 4
                        /\ \A k \in 1..4 : fetchAdv.outcomes[k] # "success"

\* C16 witness: the third method succeeded after one method failed and one
\* raised, and the fourth was not called
C16_ThirdMethodWins ==
    /\ fetchAdv.pc = "done"
    /\ fetchAdv.outcomes = <<"failure", "raised", "success">>
    /\ fetchAdv.result.by = "Enhanced Browser (Selenium)"

\* C17: fetch_conversation always returns a result and never raises: the
\* share URL is requested at most max_retries+1 times, the sleep after
\* failed attempt k is backoff_factor * 2^k, a call whose every attempt
\* raised returns success false with an error and html_content None, and
\* success is true only for a 200 response, html_content then being the
\* response text.
C17_FetchAlwaysReturns ==
    fetch.pc # "idle" =>
        /\ fetch.pc # "raised"
        /\ fetch.gets <= fetch.max_retries + 1
        /\ \A k \in 1..Len(fetch.sleeps) : fetch.sleeps[k] = Pow2(k - 1)
        /\ fetch.pc = "done" =>
              /\ Len(fetch.errors) = fetch.max_retries + 1 =>
                    /\ ~fetch.result.success
                    /\ fetch.result.error # None
                    /\ fetch.result.html_content = None
              /\ fetch.result.success =>
                    /\ fetch.status = 200
                    /\ fetch.result.html_content = ResponseText

(***************************************************************************)
(* Claims about concurrent calls (checked under SpecConc)                  *)
(***************************************************************************)
\* C11: for any interleaving of two parse_html calls, two calls on one
\* ConversationParser instance included, what a call returns as share_id,
\* title, messages and message_count is what its own (html, url) gives,
\* with nothing of the other call in it.
C11_CallsDoNotMix ==
    conc.pc # "idle" =>
        \A c \in Calls :
            conc.call[c].pc = "done" =>
                LET r == conc.call[c].result
                    own == ExtractMessages(conc.call[c].doc)
                IN /\ r.metadata.share_id = ExtractShareId(conc.call[c].url)
                   /\ r.metadata.title = ExtractTitle(conc.call[c].cands)
                   /\ r.messages = own
                   /\ r.metadata.message_count = Len(own)

(***************************************************************************)
(* Claims about the language tag (checked under SpecLang)                  *)
(***************************************************************************)
\* the tag a class token names: X for language-X and lang-X, the token
\* itself for a known language, Unset for any other token
TokenTag(c) ==
    IF StartsWith(c, LanguageDash) THEN SubSeq(c, Len(LanguageDash) + 1, Len(c))
    ELSE IF StartsWith(c, LangDash) THEN SubSeq(c, Len(LangDash) + 1, Len(c))
    ELSE IF c \in KnownLanguages THEN c
    ELSE Unset

\* (a): the first class token of the code element that names a tag
OwnTagged == {k \in 1..Len(lang.cls) : TokenTag(lang.cls[k]) # Unset}
\* (b): the first class token of the parent with the language- prefix
ParentTagged == {k \in 1..Len(lang.parentCls) : StartsWith(lang.parentCls[k], LanguageDash)}
\* (c): keyword sniffing, python before javascript before sql before cpp
HasWord(W) == \E k \in 1..Len(lang.words) : lang.words[k] \in W
SniffedTag ==
    IF HasWord({"python"}) THEN <<"p","y","t","h","o","n">>
    ELSE IF HasWord({"function"}) THEN <<"j","a","v","a","s","c","r","i","p","t">>
    ELSE IF HasWord({"select", "SELECT"}) /\ HasWord({"from", "FROM"}) THEN <<"s","q","l">>
    ELSE IF HasWord({"#include"}) THEN <<"c","p","p">>
    ELSE <<>>

\* the tag by the priority (a), (b), (c), (d)
PriorityTag ==
    IF OwnTagged # {} THEN TokenTag(lang.cls[SetMin(OwnTagged)])
    ELSE IF ParentTagged # {} THEN TokenTag(lang.parentCls[SetMin(ParentTagged)])
    ELSE SniffedTag

\* C14 as stated: the tag of the emitted fence is the one the priority (a)
\* own class, (b) parent class, (c) keyword sniffing, (d) empty string
\* gives; with no match in (a)-(c) the fence carries the empty tag.
C14_FenceTagByPriority ==
    lang.pc = "done" => lang.fence = PriorityTag

\* C14 amended: _detect_code_language returns the tag of the priority
\* (a)-(d); the fence carries that tag when pygments cannot be imported or
\* has a lexer for it, and otherwise (pygments there, the tag empty or
\* unknown to it) a non-empty tag guessed from the content.
C14_DetectedTagByPriority ==
    /\ lang.pc \in {"detected", "done"} => lang.language = PriorityTag
    /\ lang.pc = "done" =>
          /\ (~lang.pygments \/ LexerFound(PriorityTag)) => lang.fence = PriorityTag
          /\ (lang.pygments /\ ~LexerFound(PriorityTag)) =>
                (lang.fence = lang.guess /\ lang.fence # <<>>)

\* C14 witness: nothing in (a)-(c) matches, pygments is there, and the fence
\* carries a guessed tag
C14_GuessedTagOnFence ==
    /\ lang.pc = "done"
    /\ lang.pygments
    /\ OwnTagged = {} /\ ParentTagged = {} /\ SniffedTag = <<>>
    /\ lang.language = <<>>
    /\ lang.fence # <<>>

(***************************************************************************)
(* Claims about code blocks (checked under SpecCode)                       *)
(***************************************************************************)

\* the <pre> elements of the container, in document order
PresOf(children) == Flatten([k \in 1..Len(children) |-> children[k].pres])

\* C12: rendering is idempotent and leaves its input as it was: the same
\* document rendered twice gives the same content both times, the elements
\* are the same after rendering as before, and a parser that parsed
\* something else before returns what a parser that parsed nothing returns
C12_RenderingIdempotent ==
    fenced.pc = "done" =>
        /\ fenced.second = fenced.first
        /\ fenced.children = fenced.children0
        /\ fenced.second =
              StoreMessages([messages |-> <<>>],
                            <<ExtractStructuredBlocks(fenced.children0, fenced.tag).out>>).messages

\* a code element with a non-empty span rendered twice by a parser that
\* holds the turns of an earlier document
C12_SpannedCodeRenderedTwice ==
    /\ fenced.pc = "done"
    /\ fenced.earlier # <<>>
    /\ \E k \in 1..Len(PresOf(fenced.children0)) :
          LET pre == PresOf(fenced.children0)[k]
          IN pre.code /\ pre.elem.spanned /\ pre.elem.span # <<>>
    /\ fenced.first # << <<>> >>

\* the code blocks of the container: the <pre> elements with a <code> child
\* that carry the code-block class
CodeBlocksOf(children) ==
    LET IsCodeBlock(pre) == pre.code /\ CodeBlockClass \in pre.cls
    IN SelectSeq(PresOf(children), IsCodeBlock)

\* the raw text of a code block between its fences, each line without its
\* trailing white space
FencedText(pre, tag) ==
    <<Fence>> \o tag \o <<LineBreak>>
    \o CleanLines(CodeGetText(pre.elem))
    \o <<LineBreak, Fence>>

\* the fenced blocks occurring in a text, in order
FencesIn(text) ==
    LET idx     == [i \in 1..Len(text) |-> i]
        IsF(i)  == text[i] = Fence
        at      == SelectSeq(idx, IsF)
    IN [k \in 1..(Len(at) \div 2) |-> SubSeq(text, at[2 * k - 1], at[2 * k])]

\* C13: every code block of a rendered answer reappears between an opening
\* and a closing fence, line for line, differing from its raw text only by
\* the trailing white space removed from each line: the code blocks, in
\* document order, are found among the fenced blocks of the output
C13_CodeBlocksRoundTrip ==
    fenced.pc \in {"once", "done"} =>
        LET blocks0 == CodeBlocksOf(fenced.children0)
            fences  == FencesIn(fenced.first[1])
        IN \E f \in [1..Len(blocks0) -> 1..Len(fences)] :
              /\ \A j, k \in 1..Len(blocks0) : j < k => f[j] < f[k]
              /\ \A k \in 1..Len(blocks0) :
                    fences[f[k]] = FencedText(blocks0[k], fenced.tag)

(***************************************************************************)
(* Claims about the role of an element (checked under SpecRole)            *)
(***************************************************************************)

\* C22 as stated: the role is decided by the first match in the order
\* attribute marker, streaming state, class-token substring, text prefix
\* (case-insensitive), position parity.
C22_RoleByFiveHeuristics ==
    verdict.pc = "done" => verdict.role = RoleInFiveSteps(verdict.el, verdict.index)

ClassVerdict(el) ==
    IF ClassStrHas(el.classes, HumanClassPatterns) THEN "human"
    ELSE IF ClassStrHas(el.classes, ClaudeClassPatterns) THEN "assistant"
    ELSE "none"
TextVerdict(el) ==
    IF TextStartsWith(el.text, HumanPrefixes) THEN "human"
    ELSE IF TextStartsWith(el.text, ClaudePrefixes) THEN "assistant"
    ELSE "none"

\* C22: the role is decided by the first match in the order user-message
\* marker, avatar letter, font-claude-response child, streaming state,
\* class-token substring, text prefix (case-insensitive), position parity;
\* a later heuristic never overrides an earlier match, and parity decides
\* only when nothing earlier matches.
C22_RoleBySevenHeuristics ==
    verdict.pc = "done" =>
        LET el == verdict.el
            structural == el.marker \/ el.avatar \/ el.response \/ el.stream
        IN /\ el.marker => verdict.role = "human"
           /\ (~el.marker /\ el.avatar) => verdict.role = "human"
           /\ (~el.marker /\ ~el.avatar /\ el.response) => verdict.role = "assistant"
           /\ (~el.marker /\ ~el.avatar /\ ~el.response /\ el.stream) =>
                 verdict.role = "assistant"
           /\ (~structural /\ ClassVerdict(el) # "none") => verdict.role = ClassVerdict(el)
           /\ (~structural /\ ClassVerdict(el) = "none" /\ TextVerdict(el) # "none") =>
                 verdict.role = TextVerdict(el)
           /\ (~structural /\ ClassVerdict(el) = "none" /\ TextVerdict(el) = "none") =>
                 verdict.role = (IF verdict.index % 2 = 0 THEN "human" ELSE "assistant")

\* an element with the avatar letter and a streaming descendant, and no
\* marker: the avatar decides
C22_AvatarBeforeStreaming ==
    /\ verdict.pc = "done"
    /\ ~verdict.el.marker /\ verdict.el.avatar /\ verdict.el.stream
    /\ verdict.role = "human"
    /\ verdict.index % 2 = 1

(***************************************************************************)
(* Claims about the user-turn container (checked under SpecClimb)          *)
(***************************************************************************)

\* the class list holds the two names as class tokens of their own
HasBothTokens(classes) ==
    /\ \E k \in 1..Len(classes) : classes[k] = <<RoundedXl>>
    /\ \E k \in 1..Len(classes) : classes[k] = <<BgBg300>>

\* the ancestors tried: at most 10 levels up
LevelsTried == 1..(IF Len(climb.up) < LookUpLevels THEN Len(climb.up) ELSE LookUpLevels)

FilesNamed(entry) == {FileNameOf(key) : key \in entry.files}

\* C28: after any sequence of calls the 'files' map of every entry names
\* exactly the files in the entry's directory, and every directory holding
\* files is referenced by an entry.
C28_FilesMapMatchesDirectory ==
    LET c == store.cache
    IN store.pc = "run" =>
          /\ \A sid \in ShareIdTexts :
                ConversationExists(c, sid) =>
                    c.disk[c.index[sid].directory] = FilesNamed(c.index[sid])
          /\ \A d \in DirNames :
                (c.disk[d] # NoDirectory /\ c.disk[d] # {}) =>
                    \E sid \in ShareIdTexts : c.index[sid].directory = d

\* C29: two distinct share ids never map to the same conversation
\* directory.
C29_DirectoryPerShareId ==
    store.pc = "run" =>
        \A s1, s2 \in ShareIdTexts :
            ( /\ s1 # s2
              /\ ConversationExists(store.cache, s1)
              /\ ConversationExists(store.cache, s2) ) =>
                store.cache.index[s1].directory # store.cache.index[s2].directory

(***************************************************************************)
(* Claims about the scrape command (checked under SpecScrape)              *)
(***************************************************************************)

ScrapeEnded == scrape.pc \in {"exit", "returned", "raised", "done"}
CachedAtStart ==
    /\ ExtractShareId(scrape.url) \in ShareIdTexts
    /\ ConversationExists(scrape.cache0, ExtractShareId(scrape.url))

\* C26: the scrape command writes to the cache only if the URL is valid,
\* the share id is not cached or --force is given, the fetch succeeded and
\* the parse succeeded; otherwise index and files stay as they were, and
\* for a cached conversation without --force nothing is fetched.
C26_CacheWrittenOnlyAfterSuccess ==
    scrape.pc # "idle" =>
        /\ scrape.cache # scrape.cache0 =>
              /\ IsValidClaudeShareUrl(scrape.url)
              /\ (~CachedAtStart \/ scrape.force)
              /\ scrape.fetchGives = "ok"
              /\ scrape.parseGives = "ok"
        /\ (CachedAtStart /\ ~scrape.force) => scrape.fetches = 0
        /\ scrape.fetches > 0 => IsValidClaudeShareUrl(scrape.url)

\* a forced scrape of a cached conversation that ran to its end and wrote,
\* the parse having succeeded
C26_ForcedScrapeWrites ==
    /\ scrape.pc = "done"
    /\ CachedAtStart /\ scrape.force
    /\ scrape.cache # scrape.cache0
    /\ scrape.fetches = 1

\* C30: whenever conversation_exists(share_id) is true after the command
\* has ended, whatever failed or interrupted it, the entry's raw HTML and
\* metadata have been saved.
C30_CachedEntryHasFiles ==
    ScrapeEnded =>
        \A sid \in ShareIdTexts :
            ConversationExists(scrape.cache, sid) =>
                /\ {"raw_html", "metadata"} \subseteq scrape.cache.index[sid].files
                /\ {FileNameOf("raw_html"), FileNameOf("metadata")}
                      \subseteq scrape.cache.disk[scrape.cache.index[sid].directory]

(***************************************************************************)
(* Claims about the batch command (checked under SpecBatch)                *)
(***************************************************************************)

\* processing URL k fails: it is not skipped as cached, and its fetch, its
\* parse or a cache call fails
UrlFails(k) ==
    /\ batch.force \/ ~batch.outcomes[k].cached
    /\ batch.outcomes[k].gives # "saved"

\* C27: the final report accounts for every URL attempted: the two counts
\* add up to the number of URLs processed before the loop ended, every URL
\* that failed is counted in error_count, without --continue-on-error the
\* loop stops at the first failing URL, with it every URL is processed.
C27_ReportAccountsForEveryUrl ==
    batch.pc = "done" =>
        LET failed == {k \in 1..batch.entered : UrlFails(k)}
        IN /\ batch.report[1] + batch.report[2] = batch.entered
           /\ batch.report[2] = Cardinality(failed)
           /\ batch.continue_on_error => batch.entered = Len(batch.outcomes)
           /\ ~batch.continue_on_error =>
                 \A k \in 1..(batch.entered - 1) : ~UrlFails(k)

(***************************************************************************)
(* Claims about the share-URL contract (checked under SpecUrl)             *)
(***************************************************************************)
\* s holds lit somewhere
Contains(s, lit) == \E i \in 1..Len(s) : IsPrefixAt(lit, s, i)

\* what the contract calls the path segment immediately after /share/
SegmentAfterShare(u) ==
    LET path == UrlParse(u).path
    IN IF StartsWith(path, SharePath)
       THEN SubSeq(path, Len(SharePath) + 1,
                   FindAnyFrom(path, {"/"}, Len(SharePath) + 1) - 1)
       ELSE <<>>

IsShareIdText(seg) == seg # <<>> /\ \A k \in 1..Len(seg) : seg[k] \in HexChars

ContractValid(u) ==
    /\ UrlParse(u).netloc = ClaudeHost
    /\ StartsWith(UrlParse(u).path, SharePath)
    /\ IsShareIdText(SegmentAfterShare(u))

\* C7: is_valid_claude_share_url(url) is true exactly when the host is
\* claude.ai, the path begins with /share/ and the path segment right after
\* /share/ matches [a-f0-9-]+; the share id used downstream is then that
\* segment, not a match elsewhere in the URL nor a proper prefix of it.
C7_ShareUrlContract ==
    upc = "done" =>
        /\ urlValid <=> ContractValid(url)
        /\ urlValid => urlShareId = SegmentAfterShare(url)

\* C8: the share id of https://claude.ai/share/<id> is <id>; for a URL on
\* another host, or whose path lacks /share/, share-id extraction yields no
\* id and the URL is rejected as invalid.
C8_ShareIdOnlyFromShareUrls ==
    upc = "done" =>
        /\ ( /\ StartsWith(url, CanonicalPrefix)
             /\ IsShareIdText(SubSeq(url, Len(CanonicalPrefix) + 1, Len(url))) )
           => urlShareId = SubSeq(url, Len(CanonicalPrefix) + 1, Len(url))
        /\ ( \/ UrlParse(url).netloc # ClaudeHost
             \/ ~Contains(UrlParse(url).path, SharePath) )
           => (urlShareId = None /\ ~urlValid)

(***************************************************************************)
(* Claims about the title (checked under SpecTitle)                        *)
(***************************************************************************)
\* where the trailing "| Claude..." part of a text begins: the first place
\* from which white space, the bar, white space and the site name follow
ClaudeSuffixStart(s) ==
    LET hits == {i \in 1..Len(s) :
                    \E j \in i..Len(s) : \E k \in (j + 1)..Len(s) :
                        /\ \A m \in i..(j - 1) : s[m] \in WhiteSpace
                        /\ s[j] = "|"
                        /\ \A m \in (j + 1)..(k - 1) : s[m] \in WhiteSpace
                        /\ s[k] = "Claude"}
    IN IF hits = {} THEN Len(s) + 1 ELSE SetMin(hits)

\* every run of white space as one space
CollapseRuns(s) ==
    LET idx  == [i \in 1..Len(s) |-> i]
        Kept(i) == s[i] \notin WhiteSpace \/ i = 1 \/ s[i - 1] \notin WhiteSpace
        kept == SelectSeq(idx, Kept)
    IN [k \in 1..Len(kept) |->
            IF s[kept[k]] \in WhiteSpace THEN " " ELSE s[kept[k]]]

\* the cleaned text of a candidate: suffix stripped, white space collapsed
CleanedText(text) ==
    LET t == Strip(text)
    IN CollapseRuns(Strip(SubSeq(t, 1, ClaudeSuffixStart(t) - 1)))

TitleWorthy(c, k) ==
    /\ c[k] # None
    /\ CleanedText(c[k]) # <<>>
    /\ CleanedText(c[k]) # SiteName

\* C9: the title is the cleaned text of the first candidate, in selector
\* priority order, whose cleaned text is neither empty nor the bare site
\* name; with no such candidate it is 'Untitled Conversation'.
C9_TitleIsFirstCleanCandidate ==
    tpc = "done" =>
        LET ok == {k \in 1..NumTitleSelectors : TitleWorthy(cands, k)}
        IN titleOut = IF ok = {} THEN Untitled
                      ELSE CleanedText(cands[SetMin(ok)])

\* C9, the instance the specification names: 'My Chat | Claude' gives 'My Chat'
\* ("x" standing for a word of the title)
C9_MyChatExample ==
    ExtractTitle([NoCands EXCEPT ![2] = <<"x", " ", "|", " ", "Claude">>]) = <<"x">>

(***************************************************************************)
(* Claims about rendering a turn (checked under SpecRender)                *)
(***************************************************************************)
PaddingTokens == {P3, Pt0, Pr8}

\* a reasoning sub-container: the grid signature plus all three padding tokens
IsReasoningDiv(d) == GridCols \in d.cls /\ PaddingTokens \subseteq d.cls
\* a main-answer sub-container: the grid signature and none of the padding tokens
IsMainAnswerDiv(d) ==
    GridCols \in d.cls /\ Gap25 \in d.cls /\ d.cls \cap PaddingTokens = {}

ReasoningDivs(t) == {i \in 1..Len(t.divs) : IsReasoningDiv(t.divs[i])}
MainAnswerDivs(t) == {i \in 1..Len(t.divs) : IsMainAnswerDiv(t.divs[i])}

InSeq(x, s) == \E i \in 1..Len(s) : s[i] = x

\* C10: for an assistant turn container (no user-message marker, a response
\* wrapper) holding one reasoning sub-container and one sibling main-answer
\* sub-container, both with content, the rendered content is the label
\* '**Thinking Process:**', a blank line, the reasoning content, a blank
\* line, the main-answer content; when no reasoning sub-container exists the
\* label is absent.
C10_ThinkingBeforeAnswer ==
    (rpc = "done" /\ turn.marker = NoMarker /\ turn.fcr) =>
        /\ \A r \in ReasoningDivs(turn) : \A m \in MainAnswerDivs(turn) :
              ( /\ ReasoningDivs(turn) = {r}
                /\ MainAnswerDivs(turn) = {m}
                /\ turn.divs[r].parent = turn.divs[m].parent
                /\ ExtractStructuredContent(turn, r) # <<>>
                /\ ExtractStructuredContent(turn, m) # <<>> )
              => rendered = <<ThinkingLabel, BlankLine>>
                            \o ExtractStructuredContent(turn, r)
                            \o <<BlankLine>>
                            \o ExtractStructuredContent(turn, m)
        /\ ReasoningDivs(turn) = {} => ~InSeq(ThinkingLabel, rendered)

\* the div _extract_thinking_process selects, 0 for none
SelectedReasoning(t) ==
    FirstOf({j \in 1..Len(t.divs) : LooksLikeThinking(t.divs[j].cls)})
\* the div _extract_claude_main_response selects, 0 for none
SelectedMainAnswer(t) ==
    FirstOf({j \in 1..Len(t.divs) : LooksLikeMainResponse(t.divs[j].cls)})

\* C25: in an assistant turn container the selected reasoning element
\* carries all three padding tokens, the selected main-answer element none
\* of them, the two are never the same element, and the label of the
\* reasoning part is rendered at most once.
C25_ReasoningAndMainDistinct ==
    (rpc = "done" /\ turn.marker = NoMarker /\ turn.fcr) =>
        LET r == SelectedReasoning(turn)
            m == SelectedMainAnswer(turn)
        IN /\ r # 0 => PaddingTokens \subseteq turn.divs[r].cls
           /\ m # 0 => turn.divs[m].cls \cap PaddingTokens = {}
           /\ (r # 0 /\ m # 0) => r # m
           /\ Cardinality({i \in 1..Len(rendered) : rendered[i] = ThinkingLabel}) <= 1

====
